---- MODULE Spec2Model ----
(***************************************************************************)
(* A model of the security-scripts repository: the report aggregator       *)
(* (SecurityReportGenerator), the probers (PortScanner.scan_port,          *)
(* BackupScanner.test_backup_url, HTTPSmugglingTester._send_raw_request),   *)
(* the thread-pool dispatch of PortScanner.scan_ports and of the           *)
(* executor.map based scan_target methods, and the race-condition phase of *)
(* BusinessLogicScanner.run_business_logic_scan.                           *)
(*                                                                         *)
(* The variable prog says which program a behaviour runs; each program has *)
(* its own specification: SpecReport and SpecSave (the report generator),  *)
(* SpecProbe, SpecDispatch, SpecCancel and SpecRuns (the probers and the   *)
(* port scanner), SpecBLS, SpecGenerate, SpecWS, SpecSample, SpecClassify, *)
(* SpecSsl (ssl_check), SpecIdor, SpecFindings, SpecBlocked, SpecSweep and *)
(* SpecRaceTester.                                                         *)
(***************************************************************************)
EXTENDS Integers, Sequences, FiniteSets, TLC

VARIABLES
    prog,            \* the program this behaviour runs
    \* ---- SecurityReportGenerator
    report_data,     \* self.report_data
    calls,           \* history: the (scan_type, results) arguments of add_scan_result, in call order
    clock,           \* time.time()
    saved,           \* the file save_report wrote last: [format, data]
    \* ---- one prober call
    probe,           \* the call: [fn, arg, net, resp, pc, out]
    unclosed,        \* sockets opened by returned calls and still open
    \* ---- a scan run on a ThreadPoolExecutor
    scan_args,       \* the arguments of the run
    max_workers,     \* the executor's max_workers
    candidates,      \* the ports (scan_ports) or URLs (scan_target) of the run
    server,          \* what the target answers to the URLs of a scan_target run
    main_pc,         \* where the calling thread is: "submit", "collect", "done"
    futures,         \* the futures submitted so far: [state, result] each
    work_queue,      \* the executor's queue: indices of candidates not yet taken
    running,         \* indices of the candidates whose probe is executing
    invocations,     \* history: how often the prober was called on each candidate
    completion,      \* history: the candidates in the order their futures finished
    ac_finished,     \* as_completed: futures found finished when it was called, not yet yielded
    ac_before,       \* history: how many futures were finished when as_completed was called
    waiter,          \* as_completed: waiter.finished_futures
    scan_results,    \* PortScanner.scan_results
    collected,       \* scan_ports' local open_ports / scan_target's local results
    retval,          \* the value the run returned
    \* ---- BusinessLogicScanner.run_business_logic_scan
    bls_pc,          \* where the scan is
    endpoints,       \* len(list(self.endpoints)[:15]) and how many of them are tested
    elapsed,         \* seconds since the requests of test_race_conditions started
    inflight,        \* requests under way: how many connect, how many read (by start)
    finished,        \* results of finished futures not yet yielded, counted by value
    responses,       \* the list responses of test_race_conditions, counted by value
    vulnerabilities, \* self.vulnerabilities
    bls_ret,         \* what run_business_logic_scan returned or raised
    \* ---- calls of the candidate generators
    gen_calls,       \* history: the calls made, [fn, target, urls] each
    \* ---- one PortScanner object used for several runs
    scanner,         \* the object: [scan_results]
    runs,            \* history: the calls made, [fn, ports, ret] each
    \* ---- APISecurityTester.test_websocket_vulnerabilities
    ws_main,         \* the calling thread: [pc, endpoint, waited]
    ws_threads,      \* the test_websocket threads: [pc, message, timer] each
    ws_server,       \* what the target answers to each test message
    api_vulnerabilities,  \* self.vulnerabilities of the APISecurityTester
    ws_returned,     \* history: self.vulnerabilities when the method returned
    \* ---- BackupScanner.download_backup_sample
    sample,          \* the call: [pc, max_size, status_code, content, ret]
    \* ---- calls of the response classifiers
    classify,        \* [tester, calls]: the tester object and the history of calls
    \* ---- ssl_check.parse_and_output
    ssl,             \* the call: [pc, host, raw, stdout]
    \* ---- IDORTester on one start URL
    idor,            \* [url, requests]: the start URL and the URLs requested, in order
    \* ---- one probe against a remote side that may stay silent
    blocked,         \* the call: [fn, pc, waited, remote]
    \* ---- the request loops of test_rest_api_vulnerabilities and test_parameter
    sweep,           \* [fn, pc, i, j, target, sent, results]: the loop and the requests it has sent
    \* ---- one RaceConditionTester test
    race,            \* [pc, test, created, requesting, holding, responses, vulnerabilities]
    \* ---- one HTTPSmugglingTester test method
    smuggling        \* [pc, scheme, at, calls, vulnerabilities]

varsReport == <<report_data, calls, clock, saved>>
varsProbe == <<probe, unclosed>>
varsPool == <<futures, work_queue, running, invocations, completion>>
varsMain == <<main_pc, ac_finished, ac_before, waiter, scan_results, collected, retval>>
varsDispatch == <<scan_args, max_workers, candidates, server, varsPool, varsMain>>

varsRace == <<elapsed, inflight, finished, responses>>
varsBLS == <<bls_pc, endpoints, varsRace, vulnerabilities, bls_ret>>

varsGen == <<gen_calls>>
varsRuns == <<scanner, runs>>
varsWS == <<ws_main, ws_threads, ws_server, api_vulnerabilities, ws_returned>>
varsSample == <<sample>>
varsClassify == <<classify>>
varsEarlier ==
    <<varsReport, varsProbe, varsDispatch, varsBLS, varsGen, varsRuns, varsWS, varsSample,
      varsClassify>>
varsLater == <<ssl, idor, blocked, sweep, race, smuggling>>
varsOther == <<varsGen, varsRuns, varsWS, varsSample, varsClassify, varsLater>>

vars == <<prog, varsReport, varsProbe, varsDispatch, varsBLS, varsOther>>

None == "None"

(***************************************************************************)
(* Bounds                                                                  *)
(***************************************************************************)
MaxFindings == 3
MaxClock == 1
MaxPorts == 3        \* ports of the longest range scanned
MaxThreads == 2      \* largest max_threads a PortScanner is built with
MaxEndpoints == 1    \* most endpoints discover_business_endpoints finds
MaxGenCalls == 3     \* most calls of the candidate generators in one behaviour
MaxRunPorts == 2     \* ports of the longest range a repeated scan_ports call is given
MaxClassifyCalls == 2  \* most calls of the response classifiers in one behaviour
MaxSegments == 3     \* pieces of the longest openssl output
MaxHostLen == 2      \* characters of the longest host name
MaxFailures == 1     \* most requests of one loop that raise

(***************************************************************************)
(* Small helpers                                                           *)
(***************************************************************************)
Max(a, b) == IF a >= b THEN a ELSE b

Range(s) == {s[i] : i \in 1..Len(s)}

\* dict.get(key) with the default None
Get(d, key) == IF key \in DOMAIN d THEN d[key] ELSE None

(***************************************************************************)
(* SecurityReportGenerator                                                 *)
(***************************************************************************)

\* The dict IDORTester.test_numeric_id_idor appends for a hit (url, parameter and
\* test_value left out: nothing in the aggregator reads them).
IdorFinding == [type |-> "Numeric ID IDOR", severity |-> "High"]

\* The dict RaceConditionTester.test_purchase_race_condition appends for a hit.
PurchaseRaceFinding == [type |-> "Purchase Race Condition", severity |-> "High",
                        description |-> "Multiple purchases processed simultaneously"]

\* The results dict main() builds from --add-vuln TYPE SEVERITY DESCRIPTION.
CliResults(severity) == [severity |-> severity, description |-> "d"]

\* The (scan_type, results) pairs add_scan_result is called with in this model.
Findings ==
    {<<"sql", CliResults(s)>> : s \in {"critical", "high", "medium", "low"}}
    \cup {<<"idor", IdorFinding>>, <<"race_condition", PurchaseRaceFinding>>,
          <<"port", [open_ports |-> 1]>>}

\* SecurityReportGenerator.__init__
InitReportData ==
    [metadata |-> <<>>, summary |-> <<>>, vulnerabilities |-> <<>>, recommendations |-> <<>>]

\* Faulty variant: an entry equal (scan_type, results) to the last stored one is skipped.
add_scan_result_skip_repeat(rd, scan_type, results, now) ==
    LET vulns == rd.vulnerabilities IN
    IF /\ Len(vulns) > 0
       /\ vulns[Len(vulns)].scan_type = scan_type
       /\ vulns[Len(vulns)].results = results
    THEN rd
    ELSE [rd EXCEPT !.vulnerabilities =
            Append(@, [scan_type |-> scan_type, timestamp |-> now, results |-> results])]

\* Faulty variant: a finding already stored (same scan_type and results) is not stored again.
add_scan_result_dedup(rd, scan_type, results, now) ==
    IF \E i \in 1..Len(rd.vulnerabilities) :
          /\ rd.vulnerabilities[i].scan_type = scan_type
          /\ rd.vulnerabilities[i].results = results
    THEN rd
    ELSE [rd EXCEPT !.vulnerabilities =
            Append(@, [scan_type |-> scan_type, timestamp |-> now, results |-> results])]

\* SecurityReportGenerator.add_scan_result: append one entry, always.
add_scan_result(rd, scan_type, results, now) ==
    [rd EXCEPT !.vulnerabilities =
        Append(@, [scan_type |-> scan_type, timestamp |-> now, results |-> results])]

\* v.get('results', {}).get('severity')
SeverityOf(v) == Get(Get(v, "results"), "severity")

\* sum(1 for v in vulnerabilities if v.get('results', {}).get('severity') == sev)
CountSeverity(vulns, sev) ==
    Cardinality({i \in 1..Len(vulns) : SeverityOf(vulns[i]) = sev})

\* Faulty variant: the weighted sum is not divided by the number of findings.
generate_summary_no_division(rd) ==
    LET vulns    == rd.vulnerabilities
        critical == CountSeverity(vulns, "critical")
        high     == CountSeverity(vulns, "high")
        medium   == CountSeverity(vulns, "medium")
        low      == CountSeverity(vulns, "low")
    IN [total_vulnerabilities |-> Len(vulns),
        critical |-> critical, high |-> high, medium |-> medium, low |-> low,
        risk_score |-> [num |-> critical * 4 + high * 3 + medium * 2 + low * 1,
                        den |-> 1]]

\* SecurityReportGenerator.generate_summary. risk_score is the quotient num / den of
\* the true division; it is kept as the pair so that no rounding is modelled.
generate_summary(rd) ==
    LET vulns    == rd.vulnerabilities
        total    == Len(vulns)
        critical == CountSeverity(vulns, "critical")
        high     == CountSeverity(vulns, "high")
        medium   == CountSeverity(vulns, "medium")
        low      == CountSeverity(vulns, "low")
    IN [total_vulnerabilities |-> total,
        critical |-> critical, high |-> high, medium |-> medium, low |-> low,
        risk_score |-> [num |-> critical * 4 + high * 3 + medium * 2 + low * 1,
                        den |-> Max(total, 1)]]

\* A fresh generator fed the sequence fs of (scan_type, results) pairs.
RECURSIVE AddAll(_, _)
AddAll(rd, fs) ==
    IF fs = <<>> THEN rd
    ELSE AddAll(add_scan_result(rd, Head(fs)[1], Head(fs)[2], 0), Tail(fs))

\* The variables of a program are idle while another program runs.
NoFile == [format |-> "none"]

IdleReport == report_data = InitReportData /\ calls = <<>> /\ clock = 0 /\ saved = NoFile
IdleProbe == probe = <<>> /\ unclosed = 0
IdleDispatch ==
    /\ scan_args = None /\ max_workers = 0 /\ candidates = <<>> /\ server = None
    /\ main_pc = "idle"
    /\ futures = <<>> /\ work_queue = <<>> /\ running = {} /\ invocations = <<>>
    /\ completion = <<>> /\ ac_finished = {} /\ ac_before = 0 /\ waiter = <<>>
    /\ scan_results = <<>>
    /\ collected = <<>> /\ retval = None

IdleBLS ==
    /\ bls_pc = "idle" /\ endpoints = <<>> /\ elapsed = 0 /\ inflight = <<>>
    /\ finished = <<>> /\ responses = <<>> /\ vulnerabilities = <<>> /\ bls_ret = None

IdleGen == gen_calls = <<>>
IdleRuns == scanner = <<>> /\ runs = <<>>

IdleWS ==
    /\ ws_main = <<>> /\ ws_threads = <<>> /\ ws_server = <<>>
    /\ api_vulnerabilities = <<>> /\ ws_returned = <<>>

IdleSample == sample = <<>>
IdleClassify == classify = <<>>
IdleSsl == ssl = <<>>
IdleIdor == idor = <<>>
IdleBlocked == blocked = <<>>
IdleSweep == sweep = <<>>
IdleRace == race = <<>>
IdleSmuggling == smuggling = <<>>
IdleEarlier ==
    /\ IdleReport /\ IdleProbe /\ IdleDispatch /\ IdleBLS /\ IdleGen /\ IdleRuns /\ IdleWS
    /\ IdleSample /\ IdleClassify
IdleLater == IdleSsl /\ IdleIdor /\ IdleBlocked /\ IdleSweep /\ IdleRace /\ IdleSmuggling

IdleOther ==
    /\ IdleGen
    /\ IdleRuns
    /\ IdleWS
    /\ IdleSample
    /\ IdleClassify
    /\ IdleLater

InitReport ==
    /\ prog = "report"
    /\ report_data = InitReportData
    /\ calls = <<>>
    /\ clock = 0
    /\ saved = NoFile
    /\ IdleProbe
    /\ IdleDispatch
    /\ IdleBLS
    /\ IdleOther

\* generator.add_scan_result(scan_type, results)
AddScanResult ==
    /\ prog = "report"
    /\ Len(calls) < MaxFindings
    /\ \E f \in Findings :
        /\ report_data' = add_scan_result(report_data, f[1], f[2], clock)
        /\ calls' = Append(calls, f)
    /\ UNCHANGED <<prog, clock, saved, varsProbe, varsDispatch, varsBLS, varsOther>>

\* time passes between two calls
TickReport ==
    /\ prog = "report"
    /\ clock < MaxClock
    /\ clock' = clock + 1
    /\ UNCHANGED <<prog, report_data, calls, saved, varsProbe, varsDispatch, varsBLS, varsOther>>

NextReport == AddScanResult \/ TickReport

SpecReport == InitReport /\ [][NextReport]_vars

(***************************************************************************)
(* Claims about the aggregator (checked under SpecReport)                  *)
(***************************************************************************)

\* Number of add_scan_result calls whose results carry the severity sev.
CallsWithSeverity(sev) ==
    Cardinality({i \in 1..Len(calls) : Get(calls[i][2], "severity") = sev})

\* C7: after any sequence of add_scan_result calls, generate_summary returns
\* risk_score = (4*critical + 3*high + 2*medium + low) / max(total, 1), where the
\* counts are those of the findings added; the score lies in [0, 4] and is 0
\* when nothing was added.
C7_RiskScore ==
    LET s == generate_summary(report_data) IN
    /\ s.total_vulnerabilities = Len(calls)
    /\ s.critical = CallsWithSeverity("critical")
    /\ s.high = CallsWithSeverity("high")
    /\ s.medium = CallsWithSeverity("medium")
    /\ s.low = CallsWithSeverity("low")
    /\ s.risk_score.num = 4 * CallsWithSeverity("critical") + 3 * CallsWithSeverity("high")
                           + 2 * CallsWithSeverity("medium") + CallsWithSeverity("low")
    /\ s.risk_score.den = Max(Len(calls), 1)
    /\ 0 <= s.risk_score.num
    /\ s.risk_score.num <= 4 * s.risk_score.den
    /\ (Len(calls) = 0 => s.risk_score.num = 0)

\* C7 witness: two critical findings and one without a recognised severity.
C7_Witness ==
    /\ Len(calls) >= 3
    /\ generate_summary(report_data).critical = 2
    /\ generate_summary(report_data).total_vulnerabilities > 2

\* The injective maps of 1..n onto itself.
Perms(n) == {p \in [1..n -> 1..n] : \A i, j \in 1..n : p[i] = p[j] => i = j}

\* C8: adding the findings to a fresh generator in any permutation yields the
\* same generate_summary result as the order they were added in.
C8_OrderIndependent ==
    \A p \in Perms(Len(calls)) :
        generate_summary(AddAll(InitReportData, [i \in 1..Len(calls) |-> calls[p[i]]]))
            = generate_summary(report_data)

\* C8 witness: three findings added, a repeated one and a different one between.
C8_Witness ==
    /\ Len(calls) >= 3
    /\ calls[1] = calls[3]
    /\ SeverityOf([results |-> calls[1][2]]) = "critical"
    /\ SeverityOf([results |-> calls[2][2]]) = "low"

\* The first occurrences of the elements of fs, in order.
RECURSIVE Dedup(_)
Dedup(fs) ==
    IF fs = <<>> THEN <<>>
    ELSE LET front == Dedup(SubSeq(fs, 1, Len(fs) - 1))
             last  == fs[Len(fs)]
         IN IF last \in Range(front) THEN front ELSE Append(front, last)

ScannerHighFindings == {<<"idor", IdorFinding>>, <<"race_condition", PurchaseRaceFinding>>}

\* C10 as claimed: exactly two findings a scanner labelled High give the
\* summary high = 2, critical = medium = low = 0 and risk score 6 / 2 = 3.
C10_HighCountedAsHigh ==
    (Len(calls) = 2 /\ \A i \in 1..2 : calls[i] \in ScannerHighFindings) =>
        LET s == generate_summary(report_data) IN
        /\ s.high = 2
        /\ s.critical = 0 /\ s.medium = 0 /\ s.low = 0
        /\ s.risk_score.num = 3 * s.risk_score.den

(***************************************************************************)
(* The probers                                                             *)
(*                                                                         *)
(* net is what the network does to the call: "ok", or the failure it meets *)
(* ("dns_failure", "refused", "timeout", "tls_failure"), or "socket_error" *)
(* (socket.socket() itself fails), "send_error", "recv_timeout",           *)
(* "decode_error" for the later steps of a raw request.                    *)
(* A prober's value is [exc, ret, sock]: exc is the exception that leaves  *)
(* the call ("none" when it returns), ret the value returned, sock what    *)
(* became of the socket the call opened: "none" (never created), "closed"  *)
(* (close() was called) or "left_open" (the call ended without close()).   *)
(***************************************************************************)

\* PortScanner.get_service_name
get_service_name(port) ==
    CASE port = 21 -> "FTP" [] port = 22 -> "SSH" [] port = 23 -> "Telnet"
      [] port = 25 -> "SMTP" [] port = 53 -> "DNS" [] port = 80 -> "HTTP"
      [] port = 110 -> "POP3" [] port = 143 -> "IMAP" [] port = 443 -> "HTTPS"
      [] port = 993 -> "IMAPS" [] port = 995 -> "POP3S" [] port = 3389 -> "RDP"
      [] port = 5432 -> "PostgreSQL" [] port = 3306 -> "MySQL" [] port = 6379 -> "Redis"
      [] port = 27017 -> "MongoDB" [] port = 9200 -> "Elasticsearch"
      [] OTHER -> "Unknown"

PortNets == {"ok", "refused", "timeout", "dns_failure", "socket_error"}

\* The try block of PortScanner.scan_port (lines 29-48). connect_ex returns an
\* errno for a refused or timed-out connection and raises for a host that does
\* not resolve; sock.close() is the statement after connect_ex.
ScanPortTry(port, net) ==
    CASE net = "socket_error" -> [exc |-> "OSError", ret |-> None, sock |-> "none"]
      [] net = "dns_failure"  -> [exc |-> "gaierror", ret |-> None, sock |-> "left_open"]
      [] net = "ok" ->
            [exc |-> "none", sock |-> "closed",
             ret |-> [port |-> port, status |-> "open", service |-> get_service_name(port)]]
      [] OTHER ->
            [exc |-> "none", sock |-> "closed",
             ret |-> [port |-> port, status |-> "closed", service |-> None]]

\* Faulty variant: scan_port without its except clause.
scan_port_no_except(port, net) == ScanPortTry(port, net)

\* PortScanner.scan_port: the try block, and except Exception -> status 'error'
\* (the timestamp of the result is left out: nothing modelled here reads it).
scan_port(port, net) ==
    LET t == ScanPortTry(port, net) IN
    IF t.exc = "none" THEN t
    ELSE [exc |-> "none", sock |-> t.sock,
          ret |-> [port |-> port, status |-> "error", service |-> None, error |-> t.exc]]

\* The responses a HEAD request gets: status code, content-type, content-length.
ContentTypes == {"text/html", "Application/ZIP", "application/octet-stream"}
ContentLengths == {None, "abc", "512", "1024", "2048"}
HeadResponses ==
    [status_code : {200, 404}, content_type : ContentTypes, content_length : ContentLengths]

\* any(indicator in content_type.lower() for indicator in backup_indicators)
HasBackupIndicator(content_type) ==
    content_type \in {"Application/ZIP", "application/octet-stream"}

\* int(content_length): the number, or ValueError
ParseInt(str) ==
    CASE str = "512" -> [exc |-> "none", val |-> 512]
      [] str = "1024" -> [exc |-> "none", val |-> 1024]
      [] str = "2048" -> [exc |-> "none", val |-> 2048]
      [] OTHER -> [exc |-> "ValueError", val |-> 0]

HttpNets == {"ok", "refused", "timeout", "tls_failure", "dns_failure"}

\* BackupScanner.test_backup_url without its except clause (lines 91-106 and
\* the return False of line 111 that every path without a return True reaches).
TestBackupUrlTry(url, net, resp) ==
    IF net # "ok" THEN [exc |-> net, ret |-> None, sock |-> "none"]
    ELSE IF resp.status_code # 200 THEN [exc |-> "none", ret |-> FALSE, sock |-> "none"]
    ELSE IF HasBackupIndicator(resp.content_type)
         THEN [exc |-> "none", ret |-> TRUE, sock |-> "none"]
    ELSE IF resp.content_length = None THEN [exc |-> "none", ret |-> FALSE, sock |-> "none"]
    ELSE LET n == ParseInt(resp.content_length) IN
         IF n.exc # "none" THEN [exc |-> n.exc, ret |-> None, sock |-> "none"]
         ELSE [exc |-> "none", ret |-> n.val > 1024, sock |-> "none"]

\* BackupScanner.test_backup_url: except Exception: pass; return False
test_backup_url(url, net, resp) ==
    LET t == TestBackupUrlTry(url, net, resp) IN
    IF t.exc = "none" THEN t ELSE [exc |-> "none", ret |-> FALSE, sock |-> "none"]

\* The text recv(4096).decode() gives, by what _check_smuggling_response reads
\* of it: which words it contains and how long it is.
RawResponses ==
    {r \in [ok200 : BOOLEAN, admin : BOOLEAN, unauthorized : BOOLEAN,
             forbidden : BOOLEAN, length : {0, 40, 100, 101, 4096}] :
        r.length >= (IF r.ok200 THEN 6 ELSE 0) + (IF r.admin THEN 5 ELSE 0)
                    + (IF r.unauthorized THEN 12 ELSE 0) + (IF r.forbidden THEN 9 ELSE 0)}

BoolToInt(b) == IF b THEN 1 ELSE 0

\* Faulty variant: two indicators are enough.
check_smuggling_response_two(response) ==
    BoolToInt(response.ok200) + BoolToInt(response.admin)
    + BoolToInt(~response.unauthorized) + BoolToInt(~response.forbidden)
    + BoolToInt(response.length > 100) >= 2

\* HTTPSmugglingTester._check_smuggling_response
check_smuggling_response(response) ==
    BoolToInt(response.ok200) + BoolToInt(response.admin)
    + BoolToInt(~response.unauthorized) + BoolToInt(~response.forbidden)
    + BoolToInt(response.length > 100) >= 3

RawNets == {"ok", "socket_error", "dns_failure", "refused", "timeout", "tls_failure",
            "send_error", "recv_timeout", "decode_error"}

\* The try block of HTTPSmugglingTester._send_raw_request (lines 163-185): the
\* socket is created, wrapped for https, connected (the TLS handshake of an
\* https target happens in connect), written, read, decoded and only then
\* closed.
SendRawRequestTry(scheme, net, response) ==
    CASE net = "socket_error" -> [exc |-> "OSError", ret |-> None, sock |-> "none"]
      [] net \in {"dns_failure", "refused", "timeout", "send_error", "recv_timeout",
                  "decode_error"} ->
            [exc |-> net, ret |-> None, sock |-> "left_open"]
      [] net = "tls_failure" /\ scheme = "https" ->
            [exc |-> "SSLError", ret |-> None, sock |-> "left_open"]
      [] OTHER ->
            [exc |-> "none", ret |-> check_smuggling_response(response), sock |-> "closed"]

\* HTTPSmugglingTester._send_raw_request: except Exception -> return False
send_raw_request(scheme, net, response) ==
    LET t == SendRawRequestTry(scheme, net, response) IN
    IF t.exc = "none" THEN t ELSE [exc |-> "none", ret |-> FALSE, sock |-> t.sock]

\* The first ports of the ranges scanned, and every port a range can hold.
StartPorts == {21, 23}
AllPorts == {s + k : s \in StartPorts, k \in 0..(MaxPorts - 1)}

InitProbe ==
    /\ prog = "probe"
    /\ \/ \E port \in AllPorts, net \in PortNets :
            probe = [fn |-> "scan_port", arg |-> port, net |-> net, resp |-> None,
                     pc |-> "call", out |-> None]
       \/ \E net \in HttpNets, resp \in HeadResponses :
            probe = [fn |-> "test_backup_url", arg |-> "https://t/backup/db.sql", net |-> net,
                     resp |-> resp, pc |-> "call", out |-> None]
       \/ \E scheme \in {"http", "https"}, net \in RawNets, resp \in RawResponses :
            /\ net = "tls_failure" => scheme = "https"
            /\ probe = [fn |-> "_send_raw_request", arg |-> scheme, net |-> net,
                        resp |-> resp, pc |-> "call", out |-> None]
    /\ unclosed = 0
    /\ IdleReport
    /\ IdleDispatch
    /\ IdleBLS
    /\ IdleOther

\* A call returns. A socket the call left open is closed by then only if the
\* runtime has already finalised the unreferenced socket object: both outcomes
\* are possible.
Returns(out) ==
    /\ probe' = [probe EXCEPT !.pc = "returned", !.out = out]
    /\ unclosed' \in (IF out.sock = "left_open" THEN {0, 1} ELSE {0})
    /\ UNCHANGED <<prog, varsReport, varsDispatch, varsBLS, varsOther>>

\* scanner.scan_port(port)
CallScanPort ==
    /\ prog = "probe" /\ probe.fn = "scan_port" /\ probe.pc = "call"
    /\ Returns(scan_port(probe.arg, probe.net))

\* scanner.test_backup_url(url)
CallTestBackupUrl ==
    /\ prog = "probe" /\ probe.fn = "test_backup_url" /\ probe.pc = "call"
    /\ Returns(test_backup_url(probe.arg, probe.net, probe.resp))

\* tester._send_raw_request(payload)
CallSendRawRequest ==
    /\ prog = "probe" /\ probe.fn = "_send_raw_request" /\ probe.pc = "call"
    /\ Returns(send_raw_request(probe.arg, probe.net, probe.resp))

NextProbe == CallScanPort \/ CallTestBackupUrl \/ CallSendRawRequest

SpecProbe == InitProbe /\ [][NextProbe]_vars

(***************************************************************************)
(* Claims about the probers (checked under SpecProbe)                      *)
(***************************************************************************)

\* C3: no prober raises past its boundary: whatever the network does, scan_port
\* returns a result with status open, closed or error, and test_backup_url and
\* _send_raw_request return a boolean, False whenever the network operation
\* failed.
C3_ProberNeverRaises ==
    probe.pc = "returned" =>
        /\ probe.out.exc = "none"
        /\ probe.fn = "scan_port" =>
              /\ probe.out.ret.status \in {"open", "closed", "error"}
              /\ probe.out.ret.port = probe.arg
        /\ probe.fn \in {"test_backup_url", "_send_raw_request"} =>
              /\ probe.out.ret \in BOOLEAN
              /\ probe.net # "ok" => probe.out.ret = FALSE

\* C3 witness: a raw request over https whose TLS handshake failed has returned.
C3_Witness ==
    /\ probe.pc = "returned"
    /\ probe.fn = "_send_raw_request"
    /\ probe.arg = "https"
    /\ probe.net = "tls_failure"
    /\ probe.out.ret = FALSE

\* C5 as claimed: when scan_port or _send_raw_request has returned, the socket
\* it opened is closed, on every exit path.
C5_SocketClosedOnReturn ==
    (probe.pc = "returned" /\ probe.fn \in {"scan_port", "_send_raw_request"}) =>
        unclosed = 0

(***************************************************************************)
(* Candidate generation                                                    *)
(***************************************************************************)

Min(a, b) == IF a <= b THEN a ELSE b

\* The targets scan_target is called with.
Targets == {"example.com", "http://example.com", ""}

\* if not target.startswith('http'): target = f"https://{target}"
\* (a text is kept as the tuple of its pieces)
EnsureProtocol(target) ==
    IF target \in {"http://example.com"} THEN <<target>> ELSE <<"https://", target>>

\* Faulty variant: range(start_port, end_port)
PortRange_exclusive(start_port, end_port) ==
    [i \in 1..Max(end_port - start_port, 0) |-> start_port + i - 1]

\* list(range(start_port, end_port + 1))
PortRange(start_port, end_port) ==
    [i \in 1..Max(end_port - start_port + 1, 0) |-> start_port + i - 1]

\* OAuthScanner.generate_oauth_urls: one URL per pattern, in list order.
oauth_patterns ==
    <<"/.well-known/openid_configuration", "/oauth/authorize", "/oauth/token",
      "/oauth/userinfo", "/api/oauth/authorize", "/api/oauth/token", "/api/oauth/userinfo",
      "/auth/oauth/authorize", "/auth/oauth/token", "/auth/oauth/userinfo",
      "/v1/oauth/authorize", "/v1/oauth/token", "/v1/oauth/userinfo",
      "/v2/oauth/authorize", "/v2/oauth/token", "/v2/oauth/userinfo">>

generate_oauth_urls(target) ==
    [i \in 1..Len(oauth_patterns) |-> EnsureProtocol(target) \o <<oauth_patterns[i]>>]

\* The text of the alternation (sql|db|sqlite|sqlite3|tar\.gz|zip|7z|rar|bak|dump)
\* as it stands in a pattern string, cut into pieces.
AlternationText ==
    <<"(", "sql", "|", "db", "|", "sqlite", "|", "sqlite3", "|", "tar", "\\", ".", "gz",
      "|", "zip", "|", "7z", "|", "rar", "|", "bak", "|", "dump", ")">>

\* BackupScanner.generate_backup_urls, the texts of backup_patterns (lines 59-67)
backup_patterns ==
    <<<<"backup", "\\", ".">> \o AlternationText,
      <<"database", "\\", ".">> \o AlternationText,
      <<"db", "\\", ".">> \o AlternationText,
      <<"dump", "\\", ".">> \o AlternationText,
      <<"data", "\\", ".">> \o AlternationText,
      <<"sql", "\\", ".">> \o AlternationText,
      <<"\\", ".">> \o AlternationText \o <<"$">> >>

backup_paths ==
    <<"/backup/", "/backups/", "/db/", "/database/", "/dump/", "/sql/", "/data/", "/files/",
      "/downloads/", "/admin/", "/wp-content/", "/includes/", "/config/", "/temp/", "/tmp/",
      "/logs/", "/var/", "/home/", "/root/">>

backup_filenames ==
    <<"backup", "database", "db", "dump", "data", "sql", "backup_<date>", "backup_<datetime>">>

\* What the regex \.(sql|db|sqlite|sqlite3|tar\.gz|zip|7z|rar|bak|dump) matches
\* at piece i of text: a "." followed at once by one of the alternatives.
ExtensionMatchAt(text, i) ==
    IF text[i] # "." \/ i = Len(text) THEN <<>>
    ELSE IF text[i + 1] \in {"sql", "db", "sqlite", "sqlite3", "zip", "7z", "rar", "bak", "dump"}
         THEN <<text[i + 1]>>
    ELSE IF /\ i + 3 <= Len(text)
            /\ text[i + 1] = "tar" /\ text[i + 2] = "." /\ text[i + 3] = "gz"
         THEN <<"tar.gz">>
    ELSE <<>>

\* re.findall(that regex, text): the extensions matched, left to right
RECURSIVE FindExtensions(_, _)
FindExtensions(text, i) ==
    IF i > Len(text) THEN <<>>
    ELSE ExtensionMatchAt(text, i) \o FindExtensions(text, i + 1)

\* concatenation of the sequences f(1), ..., f(n)
RECURSIVE Flatten(_)
Flatten(seqs) == IF seqs = <<>> THEN <<>> ELSE Head(seqs) \o Flatten(Tail(seqs))

\* The list generate_backup_urls builds in its loops (lines 70-81).
BackupUrlList(target) ==
    Flatten([p \in 1..Len(backup_paths) |->
      Flatten([q \in 1..Len(backup_patterns) |->
        LET extensions == FindExtensions(backup_patterns[q], 1) IN
        Flatten([e \in 1..Len(extensions) |->
          [f \in 1..Len(backup_filenames) |->
             EnsureProtocol(target) \o <<backup_paths[p], backup_filenames[f], ".", extensions[e]>>]])])])

MaxBackupUrls == 100

\* Faulty variant: the extensions are taken from a list, and the two URLs of
\* one path and one extension come out of the set in either order.
generate_backup_urls_any_order(target) ==
    LET a == EnsureProtocol(target) \o <<"/backup/", "backup", ".", "sql">>
        b == EnsureProtocol(target) \o <<"/backup/", "database", ".", "sql">>
    IN {<<a, b>>, <<b, a>>}

\* BackupScanner.generate_backup_urls: list(set(urls))[:100]. A set has no
\* defined order, so every list of min(100, n) distinct URLs of the set is a
\* possible value: the operator gives the set of the lists it can return.
generate_backup_urls(target) ==
    LET urls == Range(BackupUrlList(target)) IN
    IF urls = {} THEN {<<>>}
    ELSE {l \in [1..Min(MaxBackupUrls, Cardinality(urls)) -> urls] :
            \A i, j \in DOMAIN l : l[i] = l[j] => i = j}

(***************************************************************************)
(* A scan run on a ThreadPoolExecutor                                      *)
(*                                                                         *)
(* prog = "scan_ports": PortScanner.scan_ports (submit + as_completed).    *)
(* prog = "backup_scan", "oauth_scan": BackupScanner.scan_target and       *)
(* OAuthScanner.scan_target (executor.map, consumed by list()).            *)
(* The executor is modelled by its contract: a FIFO queue of work items    *)
(* and at most max_workers threads, each running one item at a time.       *)
(***************************************************************************)

\* The try block of OAuthScanner.test_oauth_endpoint, with the final return False
TestOAuthEndpointTry(url, net, resp) ==
    IF net # "ok" THEN [exc |-> net, ret |-> None, sock |-> "none"]
    ELSE [exc |-> "none", sock |-> "none",
          ret |-> (resp.status_code = 200 /\ resp.oauth_indicator)]

\* OAuthScanner.test_oauth_endpoint: except Exception: pass; return False
test_oauth_endpoint(url, net, resp) ==
    LET t == TestOAuthEndpointTry(url, net, resp) IN
    IF t.exc = "none" THEN t ELSE [exc |-> "none", ret |-> FALSE, sock |-> "none"]

\* What a target does to every request of one scan_target run.
OAuthServers ==
    {[net |-> "timeout", resp |-> None],
     [net |-> "ok", resp |-> [status_code |-> 200, oauth_indicator |-> TRUE]]}

\* The targets OAuthScanner.scan_target is called with.
OAuthTargets == {"example.com"}

BackupServers ==
    {[net |-> "timeout", resp |-> None],
     [net |-> "ok", resp |-> [status_code |-> 200, content_type |-> "Application/ZIP",
                              content_length |-> "2048"]],
     [net |-> "ok", resp |-> [status_code |-> 404, content_type |-> "text/html",
                              content_length |-> None]]}

\* What a port does to a connection attempt.
DispatchNets == {"ok", "refused", "dns_failure"}

\* ThreadPoolExecutor(max_workers=10) of the two scan_target methods
ScanTargetWorkers == 10

InitPool ==
    /\ main_pc = "submit"
    /\ futures = <<>> /\ work_queue = <<>> /\ running = {}
    /\ invocations = [i \in 1..Len(candidates) |-> 0]
    /\ completion = <<>> /\ ac_finished = {} /\ ac_before = 0 /\ waiter = <<>>
    /\ scan_results = <<>> /\ collected = <<>> /\ retval = None

\* PortScanner(target, timeout, max_threads).scan_ports(start_port, end_port)
InitScanPorts ==
    /\ prog = "scan_ports"
    /\ \E start_port \in StartPorts, n \in 0..MaxPorts, max_threads \in 1..MaxThreads :
          scan_args = [start_port |-> start_port, end_port |-> start_port + n - 1,
                       max_threads |-> max_threads]
    /\ max_workers = scan_args.max_threads
    /\ candidates = PortRange(scan_args.start_port, scan_args.end_port)
    /\ server = None
    /\ InitPool

\* BackupScanner().scan_target(target), after line 29
InitBackupScan ==
    /\ prog = "backup_scan"
    /\ max_workers = ScanTargetWorkers
    /\ \E target \in Targets : scan_args = [target |-> target]
    /\ candidates \in generate_backup_urls(scan_args.target)
    /\ server \in BackupServers
    /\ InitPool

\* OAuthScanner().scan_target(target), after line 29
InitOAuthScan ==
    /\ prog = "oauth_scan"
    /\ max_workers = ScanTargetWorkers
    /\ \E target \in OAuthTargets : scan_args = [target |-> target]
    /\ candidates = generate_oauth_urls(scan_args.target)
    /\ server \in OAuthServers
    /\ InitPool

InitDispatch ==
    /\ InitScanPorts \/ InitBackupScan \/ InitOAuthScan
    /\ IdleReport
    /\ IdleProbe
    /\ IdleBLS
    /\ IdleOther

Dispatching == prog \in {"scan_ports", "backup_scan", "oauth_scan"}

\* executor.submit(fn, candidate), called for the candidates in list order by
\* the dict comprehension of scan_ports and by executor.map
Submit ==
    /\ Dispatching /\ main_pc = "submit"
    /\ Len(futures) < Len(candidates)
    /\ futures' = Append(futures, [state |-> "PENDING", result |-> None])
    /\ work_queue' = Append(work_queue, Len(futures) + 1)
    /\ UNCHANGED <<prog, varsReport, varsProbe, varsBLS, varsOther, scan_args, max_workers, candidates, server,
                   running, invocations, completion, varsMain>>

\* Faulty variant: a thread is started for every work item.
ThreadAvailable_unbounded == TRUE

\* A pool thread may take a work item while fewer than max_workers run.
ThreadAvailable == Cardinality(running) < max_workers

\* A pool thread takes the oldest work item and calls the prober on it.
WorkerStart ==
    /\ Dispatching
    /\ work_queue # <<>>
    /\ ThreadAvailable
    /\ LET i == Head(work_queue) IN
        /\ running' = running \cup {i}
        /\ futures' = [futures EXCEPT ![i].state = "RUNNING"]
        /\ invocations' = [invocations EXCEPT ![i] = @ + 1]
    /\ work_queue' = Tail(work_queue)
    /\ UNCHANGED <<prog, varsReport, varsProbe, varsBLS, varsOther, scan_args, max_workers, candidates, server,
                   completion, varsMain>>

\* The value the prober of the run returns for candidate i.
ProbeResult(i, net) ==
    CASE prog = "scan_ports" -> scan_port(candidates[i], net)
      [] prog = "backup_scan" -> test_backup_url(candidates[i], server.net, server.resp)
      [] OTHER -> test_oauth_endpoint(candidates[i], server.net, server.resp)

\* The prober of candidate i returns and the pool thread sets the future's
\* result: the future is finished, and an installed as_completed waiter
\* records it.
WorkerFinish ==
    /\ Dispatching
    /\ \E i \in running, net \in (IF prog = "scan_ports" THEN DispatchNets ELSE {server.net}) :
        LET r == ProbeResult(i, net) IN
        /\ futures' = [futures EXCEPT ![i] =
                          [state |-> "FINISHED", result |-> r.ret, exception |-> r.exc]]
        /\ running' = running \ {i}
        /\ completion' = IF prog = "scan_ports" THEN Append(completion, i) ELSE completion
        /\ waiter' = IF prog = "scan_ports" /\ main_pc = "collect"
                      THEN Append(waiter, i) ELSE waiter
    /\ UNCHANGED <<prog, varsReport, varsProbe, varsBLS, varsOther, scan_args, max_workers, candidates, server,
                   work_queue, invocations, main_pc, ac_finished, ac_before, scan_results,
                   collected, retval>>

\* Every port is submitted: scan_ports calls as_completed(future_to_port),
\* which sets aside the futures already finished and installs its waiter.
StartAsCompleted ==
    /\ prog = "scan_ports" /\ main_pc = "submit"
    /\ Len(futures) = Len(candidates)
    /\ main_pc' = "collect"
    /\ ac_finished' = {i \in 1..Len(futures) : futures[i].state = "FINISHED"}
    /\ ac_before' = Cardinality(ac_finished')
    /\ UNCHANGED <<prog, varsReport, varsProbe, varsBLS, varsOther, scan_args, max_workers, candidates, server,
                   varsPool, waiter, scan_results, collected, retval>>

\* The body of the for loop of scan_ports for the future of candidate i
\* (lines 80-85): future.result() re-raises what the call raised.
ConsumeFuture(i) ==
    IF futures[i].exception # "none"
    THEN /\ main_pc' = "raised"
         /\ retval' = futures[i].exception
         /\ UNCHANGED <<scan_results, collected>>
    ELSE /\ scan_results' = Append(scan_results, futures[i].result)
         /\ collected' = IF futures[i].result.status = "open"
                          THEN Append(collected, futures[i].result) ELSE collected
         /\ UNCHANGED <<main_pc, retval>>

\* Faulty variant: the loop iterates future_to_port itself, in submission order.
NextFutures_submission_order ==
    LET k == Len(scan_results) + 1 IN
    IF k <= Len(futures) /\ futures[k].state = "FINISHED" THEN {k} ELSE {}

\* The futures as_completed may yield next: one that was finished when it was
\* called (these come out of a set, in no defined order), and when none of
\* those is left, the oldest future its waiter recorded.
NextFutures ==
    IF ac_finished # {} THEN ac_finished
    ELSE IF waiter # <<>> THEN {Head(waiter)}
    ELSE {}

\* One iteration of for future in as_completed(future_to_port)
YieldFuture ==
    /\ prog = "scan_ports" /\ main_pc = "collect"
    /\ \E i \in NextFutures :
        /\ ConsumeFuture(i)
        /\ ac_finished' = ac_finished \ {i}
        /\ waiter' = SelectSeq(waiter, LAMBDA j : j # i)
    /\ UNCHANGED <<prog, varsReport, varsProbe, varsBLS, varsOther, scan_args, max_workers, candidates, server,
                   varsPool, ac_before>>

\* sorted(open_ports, key=lambda x: x['port'])
RECURSIVE SortedByPort(_)
SortedByPort(results) ==
    IF results = <<>> THEN <<>>
    ELSE LET m == CHOOSE k \in 1..Len(results) :
                    \A j \in 1..Len(results) :
                        \/ results[k].port < results[j].port
                        \/ (results[k].port = results[j].port /\ k <= j)
         IN <<results[m]>> \o
            SortedByPort([j \in 1..(Len(results) - 1) |->
                            IF j < m THEN results[j] ELSE results[j + 1]])

\* as_completed is exhausted, the with block shuts the executor down and
\* scan_ports returns the open ports sorted by port.
ScanPortsReturn ==
    /\ prog = "scan_ports" /\ main_pc = "collect"
    /\ Len(scan_results) = Len(futures)
    /\ running = {}
    /\ main_pc' = "done"
    /\ retval' = SortedByPort(collected)
    /\ UNCHANGED <<prog, varsReport, varsProbe, varsBLS, varsOther, scan_args, max_workers, candidates, server,
                   varsPool, ac_finished, ac_before, waiter, scan_results, collected>>

\* [url for url, success in zip(urls, results) if success]
RECURSIVE FilterFound(_, _)
FilterFound(urls, results) ==
    IF urls = <<>> \/ results = <<>> THEN <<>>
    ELSE (IF Head(results) THEN <<Head(urls)>> ELSE <<>>)
         \o FilterFound(Tail(urls), Tail(results))

\* list(executor.map(...)) has taken the result of every future, in submission
\* order (it waits for each one; result() re-raises what the call raised); the
\* with block ends and scan_target returns the URLs whose test returned True.
ScanTargetReturn ==
    /\ prog \in {"backup_scan", "oauth_scan"} /\ main_pc = "submit"
    /\ Len(futures) = Len(candidates)
    /\ \A i \in 1..Len(futures) : futures[i].state = "FINISHED"
    /\ running = {}
    /\ IF \E i \in 1..Len(futures) : futures[i].exception # "none"
       THEN LET k == CHOOSE i \in 1..Len(futures) :
                        /\ futures[i].exception # "none"
                        /\ \A j \in 1..(i - 1) : futures[j].exception = "none"
            IN /\ main_pc' = "raised"
               /\ retval' = futures[k].exception
               /\ collected' = [j \in 1..(k - 1) |-> futures[j].result]
       ELSE /\ main_pc' = "done"
            /\ collected' = [j \in 1..Len(futures) |-> futures[j].result]
            /\ retval' = FilterFound(candidates, collected')
    /\ UNCHANGED <<prog, varsReport, varsProbe, varsBLS, varsOther, scan_args, max_workers, candidates, server,
                   varsPool, ac_finished, ac_before, waiter, scan_results>>

NextDispatch ==
    \/ Submit \/ WorkerStart \/ WorkerFinish \/ StartAsCompleted
    \/ YieldFuture \/ ScanPortsReturn
    \/ ScanTargetReturn

SpecDispatch == InitDispatch /\ [][NextDispatch]_vars

(***************************************************************************)
(* Claims about the dispatch (checked under SpecDispatch)                  *)
(***************************************************************************)

\* Number of entries of scan_results for port p.
ResultsFor(p) == Cardinality({k \in 1..Len(scan_results) : scan_results[k].port = p})

\* C1: scan_ports calls scan_port exactly once for every port of
\* [start_port, end_port] (never twice, none skipped) and appends exactly one
\* result per port to scan_results, whatever the interleaving; scan_target
\* calls its test exactly once per generated URL.
C1_EachCandidateOnce ==
    Dispatching =>
        /\ \A i \in 1..Len(invocations) : invocations[i] <= 1
        /\ prog = "scan_ports" =>
              LET first == scan_args.start_port
                  last  == scan_args.end_port
              IN /\ \A k \in 1..Len(scan_results) :
                        /\ scan_results[k].port \in first..last
                        /\ ResultsFor(scan_results[k].port) = 1
                 /\ main_pc = "done" =>
                        /\ Len(invocations) = last - first + 1
                        /\ Len(scan_results) = last - first + 1
                        /\ \A q \in first..last :
                              /\ candidates[q - first + 1] = q
                              /\ invocations[q - first + 1] = 1
                              /\ ResultsFor(q) = 1
        /\ (prog \in {"backup_scan", "oauth_scan"} /\ main_pc = "done") =>
              /\ Len(invocations) = Len(candidates)
              /\ Len(collected) = Len(candidates)
              /\ \A i \in 1..Len(candidates) : invocations[i] = 1

\* C1 witness: a scan of three ports on two threads has returned, and the
\* probe of the second port finished before the probe of the first.
C1_Witness ==
    /\ prog = "scan_ports" /\ main_pc = "done"
    /\ Len(candidates) >= 3
    /\ max_workers = 2
    /\ completion[1] = 2
    /\ Len(scan_results) = Len(candidates)

\* The limit the claim names for the run.
ConcurrencyLimit ==
    IF prog = "scan_ports" THEN scan_args.max_threads ELSE ScanTargetWorkers

\* C2: the number of probes executing at the same moment never exceeds the
\* limit: max_threads in scan_ports, 10 in the two scan_target methods.
C2_InFlightBounded ==
    Dispatching => Cardinality(running) <= ConcurrencyLimit

\* C2 witness: ten probes of an OAuth scan execute while URLs still wait.
C2_Witness ==
    /\ prog = "oauth_scan"
    /\ Cardinality(running) = ScanTargetWorkers
    /\ work_queue # <<>>

\* The candidate whose result is entry k of scan_results.
Cand(k) == scan_results[k].port - scan_args.start_port + 1

\* The place of candidate i in the order of completion.
CompletionPos(i) == CHOOSE k \in 1..Len(completion) : completion[k] = i

RaceRequests == 10          \* range(10)
RaceWorkers == 10           \* ThreadPoolExecutor(max_workers=10)
RequestTimeout == 10        \* self.session.post(url, timeout=10)
AsCompletedTimeout == 15    \* as_completed(futures, timeout=15)
EndpointLimit == 15         \* list(self.endpoints)[:15]

StatusCodes == {200, 201, 409}
Outcomes == {0} \cup StatusCodes       \* 0: make_request returned None

ReadStarts == {5, 10}                  \* when a request's connect ended
Phases == {0} \cup ReadStarts          \* 0: the request is still connecting

Total(f) == LET RECURSIVE Sum(_)
                Sum(S) == IF S = {} THEN 0
                          ELSE LET x == CHOOSE y \in S : TRUE
                               IN f[x] + Sum(S \ {x})
            IN Sum(DOMAIN f)

Zero(S) == [x \in S |-> 0]
Add(f, x, n) == [f EXCEPT ![x] = @ + n]

\* `if r`: a requests Response is true when its status is below 400.
Truthy(r) == r # 0 /\ r < 400

\* response_codes = [r.status_code for r in responses if r], as a set
response_codes(resp) == {r \in DOMAIN resp : resp[r] > 0 /\ Truthy(r)}

RaceFinding(n) == [type |-> "Race Condition", severity |-> "Medium", url |-> n]

\* The part of test_race_conditions after the with block.
race_check(vulns, resp, n) ==
    IF Cardinality(response_codes(resp)) > 1
    THEN Append(vulns, RaceFinding(n))
    ELSE vulns

InitBLS ==
    /\ prog = "business_logic_scan"
    /\ bls_pc = "discover"
    /\ endpoints = [found |-> 0, tested |-> 0]
    /\ elapsed = 0
    /\ inflight = Zero(Phases)
    /\ finished = Zero(Outcomes)
    /\ responses = Zero(Outcomes)
    /\ vulnerabilities = <<>>
    /\ bls_ret = None
    /\ IdleReport
    /\ IdleProbe
    /\ IdleDispatch
    /\ IdleOther

BLSRunning == prog = "business_logic_scan"

BLSUnchanged == UNCHANGED <<prog, varsReport, varsProbe, varsDispatch, varsOther>>

\* discover_business_endpoints: every failing GET is skipped, the endpoints
\* that answered 200 are kept; the loop of the run takes at most 15 of them.
DiscoverEndpoints ==
    /\ BLSRunning /\ bls_pc = "discover"
    /\ \E n \in 0..Min(MaxEndpoints, EndpointLimit) :
          /\ endpoints' = [found |-> n, tested |-> 0]
          /\ bls_pc' = IF n = 0 THEN "report" ELSE "race_submit"
    /\ UNCHANGED <<varsRace, vulnerabilities, bls_ret>>
    /\ BLSUnchanged

\* test_idor_vulnerabilities sends nothing for a URL without query
\* parameters; test_race_conditions then submits its ten requests, the
\* pool starts a thread for each, and as_completed is called.
RaceSubmit ==
    /\ BLSRunning /\ bls_pc = "race_submit"
    /\ elapsed' = 0
    /\ inflight' = Add(Zero(Phases), 0, Min(RaceRequests, RaceWorkers))
    /\ finished' = Zero(Outcomes)
    /\ responses' = Zero(Outcomes)
    /\ bls_pc' = "race_collect"
    /\ UNCHANGED <<endpoints, vulnerabilities, bls_ret>>
    /\ BLSUnchanged

Collecting == BLSRunning /\ bls_pc \in {"race_collect", "race_shutdown"}

\* A request's connection is established within the timeout.
ConnectDone ==
    /\ Collecting /\ inflight[0] > 0
    /\ elapsed \in ReadStarts /\ elapsed <= RequestTimeout
    /\ inflight' = Add(Add(inflight, 0, -1), elapsed, 1)
    /\ UNCHANGED <<bls_pc, endpoints, elapsed, finished, responses,
                   vulnerabilities, bls_ret>>
    /\ BLSUnchanged

\* post raises (refused, reset, connect timeout): make_request returns None.
ConnectFails ==
    /\ Collecting /\ inflight[0] > 0
    /\ elapsed > 0
    /\ inflight' = Add(inflight, 0, -1)
    /\ finished' = Add(finished, 0, 1)
    /\ UNCHANGED <<bls_pc, endpoints, elapsed, responses, vulnerabilities, bls_ret>>
    /\ BLSUnchanged

\* The response arrives within the read timeout: make_request returns it.
Respond ==
    /\ Collecting
    /\ \E s \in ReadStarts, code \in StatusCodes :
          /\ inflight[s] > 0
          /\ elapsed > s /\ elapsed - s <= RequestTimeout
          /\ inflight' = Add(inflight, s, -1)
          /\ finished' = Add(finished, code, 1)
    /\ UNCHANGED <<bls_pc, endpoints, elapsed, responses, vulnerabilities, bls_ret>>
    /\ BLSUnchanged

\* No response within the read timeout: post raises, make_request returns None.
ReadTimeout ==
    /\ Collecting
    /\ \E s \in ReadStarts :
          /\ inflight[s] > 0
          /\ elapsed - s = RequestTimeout
          /\ inflight' = Add(inflight, s, -1)
          /\ finished' = Add(finished, 0, 1)
    /\ UNCHANGED <<bls_pc, endpoints, elapsed, responses, vulnerabilities, bls_ret>>
    /\ BLSUnchanged

Pending == Total(inflight) + Total(finished)     \* futures not yet yielded

Expired == elapsed >= AsCompletedTimeout

\* Five seconds pass.  A request at its timeout ends first, a finished
\* future is yielded first, and an expired as_completed raises first.
Tick ==
    /\ Collecting /\ Total(inflight) > 0
    /\ inflight[0] > 0 => elapsed < RequestTimeout
    /\ \A s \in ReadStarts : inflight[s] > 0 => elapsed - s < RequestTimeout
    /\ bls_pc = "race_collect" => Total(finished) = 0 /\ ~Expired
    /\ elapsed' = elapsed + 5
    /\ UNCHANGED <<bls_pc, endpoints, inflight, finished, responses,
                   vulnerabilities, bls_ret>>
    /\ BLSUnchanged

\* as_completed yields a finished future; its result is appended to responses.
RaceYield ==
    /\ BLSRunning /\ bls_pc = "race_collect"
    /\ \E r \in Outcomes :
          /\ finished[r] > 0
          /\ finished' = Add(finished, r, -1)
          /\ responses' = Add(responses, r, 1)
    /\ UNCHANGED <<bls_pc, endpoints, elapsed, inflight, vulnerabilities, bls_ret>>
    /\ BLSUnchanged

\* as_completed raises TimeoutError when its 15 seconds are over and a
\* future has not been yielded.
as_completed_raises == Expired /\ Pending > 0

AsCompletedTimesOut ==
    /\ BLSRunning /\ bls_pc = "race_collect"
    /\ as_completed_raises
    /\ bls_pc' = "race_shutdown"
    /\ UNCHANGED <<endpoints, varsRace, vulnerabilities, bls_ret>>
    /\ BLSUnchanged

\* The with block waits for the worker threads (shutdown(wait=True)); the
\* TimeoutError then leaves test_race_conditions and, there being no
\* handler, run_business_logic_scan.
RaceRaises ==
    /\ BLSRunning /\ bls_pc = "race_shutdown"
    /\ Total(inflight) = 0
    /\ bls_pc' = "raised"
    /\ bls_ret' = "TimeoutError"
    /\ UNCHANGED <<endpoints, varsRace, vulnerabilities>>
    /\ BLSUnchanged

\* All ten results are collected: the status codes are compared, the three
\* bypass tests send nothing for a URL without query parameters, and the
\* loop goes to the next endpoint.
RaceReturns ==
    /\ BLSRunning /\ bls_pc = "race_collect"
    /\ Pending = 0
    /\ vulnerabilities' = race_check(vulnerabilities, responses, endpoints.tested + 1)
    /\ endpoints' = [endpoints EXCEPT !.tested = @ + 1]
    /\ bls_pc' = IF endpoints.tested + 1 < endpoints.found THEN "race_submit" ELSE "report"
    /\ UNCHANGED <<varsRace, bls_ret>>
    /\ BLSUnchanged

\* generate_business_logic_report, then return self.vulnerabilities.
BLSReturn ==
    /\ BLSRunning /\ bls_pc = "report"
    /\ bls_pc' = "done"
    /\ bls_ret' = vulnerabilities
    /\ UNCHANGED <<endpoints, varsRace, vulnerabilities>>
    /\ BLSUnchanged

NextBLS ==
    \/ DiscoverEndpoints
    \/ RaceSubmit
    \/ ConnectDone
    \/ ConnectFails
    \/ Respond
    \/ ReadTimeout
    \/ Tick
    \/ RaceYield
    \/ AsCompletedTimesOut
    \/ RaceRaises
    \/ RaceReturns
    \/ BLSReturn

SpecBLS == InitBLS /\ [][NextBLS]_vars

\* C4: a run of run_business_logic_scan ends by returning, never by an
\* exception that left the function: the run is never in the state where
\* the TimeoutError of as_completed has propagated out of it.
C4_RunNeverRaises == bls_pc # "raised"

(***************************************************************************)
(* Calls of the candidate generators                                       *)
(***************************************************************************)

InitGenerate ==
    /\ prog = "generate"
    /\ gen_calls = <<>>
    /\ IdleReport
    /\ IdleProbe
    /\ IdleDispatch
    /\ IdleBLS
    /\ IdleRuns
    /\ IdleWS
    /\ IdleSample
    /\ IdleClassify
    /\ IdleLater

GenerateUnchanged ==
    UNCHANGED <<prog, varsReport, varsProbe, varsDispatch, varsBLS, varsRuns, varsWS,
                varsSample, varsClassify, varsLater>>

\* BackupScanner().generate_backup_urls(target)
CallGenerateBackupUrls ==
    /\ prog = "generate" /\ Len(gen_calls) < MaxGenCalls
    /\ \E target \in Targets : \E urls \in generate_backup_urls(target) :
          gen_calls' = Append(gen_calls, [fn |-> "generate_backup_urls",
                                          target |-> target, urls |-> urls])
    /\ GenerateUnchanged

\* OAuthScanner().generate_oauth_urls(target)
CallGenerateOAuthUrls ==
    /\ prog = "generate" /\ Len(gen_calls) < MaxGenCalls
    /\ \E target \in Targets :
          gen_calls' = Append(gen_calls, [fn |-> "generate_oauth_urls",
                                          target |-> target,
                                          urls |-> generate_oauth_urls(target)])
    /\ GenerateUnchanged

NextGenerate == CallGenerateBackupUrls \/ CallGenerateOAuthUrls

SpecGenerate == InitGenerate /\ [][NextGenerate]_vars

BackupCalls == {k \in DOMAIN gen_calls : gen_calls[k].fn = "generate_backup_urls"}

\* The extensions of the alternation (sql|db|sqlite|sqlite3|tar\.gz|zip|7z|rar|bak|dump)
backup_extensions ==
    <<"sql", "db", "sqlite", "sqlite3", "tar.gz", "zip", "7z", "rar", "bak", "dump">>

\* The number of path x filename x extension combinations of a target.
RawCombinations == Len(backup_paths) * Len(backup_filenames) * Len(backup_extensions)

\* C11: generate_backup_urls returns exactly 100 URLs when the path x
\* filename x extension combinations of the target are more than 100.
C11_CapReached ==
    \A k \in BackupCalls :
        RawCombinations > MaxBackupUrls => Len(gen_calls[k].urls) = MaxBackupUrls

C13_EmptyTargetRejected ==
    ~(/\ prog \in {"backup_scan", "oauth_scan"}
      /\ scan_args.target = ""
      /\ main_pc = "done")

\* The value scan_target returns for urls when every test_backup_url call
\* is answered by the server scenario srv.
BackupScanValue(urls, srv) ==
    FilterFound(urls, [i \in 1..Len(urls) |-> test_backup_url(urls[i], srv.net, srv.resp).ret])

\* C14: the value BackupScanner.scan_target returns when every
\* test_backup_url call failed with an exception differs from the value it
\* returns when every call got a response that does not match.
C14_BackupOutcomesDiffer ==
    (/\ prog = "backup_scan" /\ main_pc = "done"
     /\ server.net # "ok") =>
        \A srv \in BackupServers :
            (srv.net = "ok" /\ ~test_backup_url("", srv.net, srv.resp).ret) =>
                retval # BackupScanValue(candidates, srv)

(***************************************************************************)
(* One PortScanner object used for several runs                            *)
(*                                                                         *)
(* A call of scan_ports or scan_common_ports is one step here: the run     *)
(* appends one result per port of its range to self.scan_results, in the   *)
(* order the scans complete, and returns the open ports sorted.            *)
(***************************************************************************)

common_ports ==
    <<21, 22, 23, 25, 53, 80, 110, 143, 443, 993, 995, 3389, 5432, 3306, 6379, 27017, 9200>>

MinOf(S) == CHOOSE x \in S : \A y \in S : x <= y
MaxOf(S) == CHOOSE x \in S : \A y \in S : x >= y

IsOpen(r) == r.status = "open"

\* The results one scan_ports run appends: scan_port of every port, where
\* nets[i] is what port i of the range does and order is the order in which
\* the scans complete.
RunResults(ports, order, nets) ==
    [k \in 1..Len(ports) |-> scan_port(ports[order[k]], nets[order[k]]).ret]

\* PortScanner.scan_ports as a whole
scan_ports(obj, start_port, end_port, order, nets) ==
    LET results == RunResults(PortRange(start_port, end_port), order, nets) IN
    [obj |-> [obj EXCEPT !.scan_results = @ \o results],
     ret |-> SortedByPort(SelectSeq(results, IsOpen))]

CountStatus(results, status) ==
    Cardinality({k \in 1..Len(results) : results[k].status = status})

\* PortScanner.generate_report (scan_time and scan_duration, which are read
\* from the wall clock and the timestamps, are left out)
generate_report(obj) ==
    [total_ports_scanned |-> Len(obj.scan_results),
     open_ports |-> CountStatus(obj.scan_results, "open"),
     closed_ports |-> CountStatus(obj.scan_results, "closed"),
     error_ports |-> CountStatus(obj.scan_results, "error"),
     open_ports_list |-> SelectSeq(obj.scan_results, IsOpen)]

\* PortScanner(target, timeout, max_threads)
InitRuns ==
    /\ prog = "runs"
    /\ scanner = [scan_results |-> <<>>]
    /\ runs = <<>>
    /\ IdleReport
    /\ IdleProbe
    /\ IdleDispatch
    /\ IdleBLS
    /\ IdleGen
    /\ IdleWS
    /\ IdleSample
    /\ IdleClassify
    /\ IdleLater

RunsUnchanged ==
    UNCHANGED <<prog, varsReport, varsProbe, varsDispatch, varsBLS, varsGen, varsWS,
                varsSample, varsClassify, varsLater>>

Identity(n) == [i \in 1..n |-> i]

\* scanner.scan_ports(start_port, end_port)
CallScanPorts ==
    /\ prog = "runs" /\ Len(runs) < 2
    /\ \E start_port \in StartPorts, n \in 0..MaxRunPorts :
       \E order \in Perms(n), nets \in [1..n -> DispatchNets] :
          LET end_port == start_port + n - 1
              r == scan_ports(scanner, start_port, end_port, order, nets)
          IN /\ scanner' = r.obj
             /\ runs' = Append(runs, [fn |-> "scan_ports",
                                      ports |-> PortRange(start_port, end_port),
                                      ret |-> r.ret])
    /\ RunsUnchanged

\* What every port does to a scan_common_ports run.
CommonNets == {"refused", "dns_failure"}

\* scanner.scan_common_ports(): scan_ports(min(common_ports), max(common_ports)),
\* called as main() calls it, on a scanner that has not scanned yet.
CallScanCommonPorts ==
    /\ prog = "runs" /\ runs = <<>>
    /\ \E net \in CommonNets :
          LET start_port == MinOf(Range(common_ports))
              end_port == MaxOf(Range(common_ports))
              n == end_port - start_port + 1
              r == scan_ports(scanner, start_port, end_port, Identity(n), [i \in 1..n |-> net])
          IN /\ scanner' = r.obj
             /\ runs' = Append(runs, [fn |-> "scan_common_ports",
                                      ports |-> PortRange(start_port, end_port),
                                      ret |-> r.ret])
    /\ RunsUnchanged

NextRuns == CallScanPorts \/ CallScanCommonPorts

SpecRuns == InitRuns /\ [][NextRuns]_vars

\* C15: after a second scan_ports call on the same PortScanner,
\* generate_report counts only the ports of the second run.
C15_ReportOfLastRunOnly ==
    (prog = "runs" /\ Len(runs) = 2) =>
        generate_report(scanner).total_ports_scanned = Len(runs[2].ports)

\* C20: scan_common_ports probes exactly the 17 listed ports, and no result
\* of the run is for a port outside the list.
C20_OnlyCommonPortsScanned ==
    (prog = "runs" /\ Len(runs) = 1 /\ runs[1].fn = "scan_common_ports") =>
        /\ Range(runs[1].ports) = Range(common_ports)
        /\ \A i \in DOMAIN scanner.scan_results :
              scanner.scan_results[i].port \in Range(common_ports)

(***************************************************************************)
(* APISecurityTester.test_websocket_vulnerabilities                        *)
(*                                                                         *)
(* Time is counted in seconds and advances in steps of five.  Every        *)
(* operation of a connection (the connect, each recv) ends within the      *)
(* connection's timeout, by its result or by an exception.                 *)
(***************************************************************************)

ws_endpoints == <<"/ws", "/websocket", "/api/ws", "/socket.io">>

test_messages == <<"ping", "type_ping", "subscribe_admin", "select_users">>

WsTimeout == 10       \* websocket.create_connection(ws_url, timeout=10)
JoinTimeout == 5      \* thread.join(timeout=5)

\* What ws.recv() returns: the length of the text and whether "error" is in
\* its lower-case form.
WsPong == [len |-> 4, has_error |-> FALSE]
WsError == [len |-> 18, has_error |-> TRUE]
WsEmpty == [len |-> 0, has_error |-> FALSE]

\* A target: its answers to the four test messages, and how many seconds
\* it takes to accept a connection and to answer a message (an operation
\* that takes the whole timeout raises).
WsAnswers ==
    {<<WsPong, WsError, WsError, WsError>>,
     <<WsEmpty, WsError, WsPong, WsError>>}

WsDelays == {0, 5, WsTimeout}

WsServers ==
    [answers : WsAnswers, connect_delay : WsDelays, recv_delay : WsDelays]

\* APISecurityTester._check_websocket_vulnerability
check_websocket_vulnerability(result, message) ==
    result.len > 0 /\ ~result.has_error

WsFinding(e, m) ==
    [type |-> "WebSocket Vulnerability", severity |-> "High",
     url |-> ws_endpoints[e], message |-> test_messages[m]]

WsIdleThread == [pc |-> "unstarted", message |-> 0, timer |-> 0]

InitWS ==
    /\ prog = "websocket"
    /\ ws_main = [pc |-> "start", endpoint |-> 1, waited |-> 0]
    /\ ws_threads = [e \in 1..Len(ws_endpoints) |-> WsIdleThread]
    /\ ws_server \in WsServers
    /\ api_vulnerabilities = <<>>
    /\ ws_returned = <<>>
    /\ IdleReport
    /\ IdleProbe
    /\ IdleDispatch
    /\ IdleBLS
    /\ IdleGen
    /\ IdleRuns
    /\ IdleSample
    /\ IdleClassify
    /\ IdleLater

WSUnchanged ==
    UNCHANGED <<prog, varsReport, varsProbe, varsDispatch, varsBLS, varsGen, varsRuns,
                varsSample, varsClassify, varsLater>>

WsActive(t) == ws_threads[t].pc \in {"connect", "recv"}

\* The seconds the operation thread t is in takes.
WsDelay(t) ==
    IF ws_threads[t].pc = "connect" THEN ws_server.connect_delay ELSE ws_server.recv_delay

WsDue(t) == WsActive(t) /\ ws_threads[t].timer >= Min(WsDelay(t), WsTimeout)

\* thread = threading.Thread(target=test_websocket); thread.start()
WsStartThread ==
    /\ prog = "websocket" /\ ws_main.pc = "start"
    /\ ws_threads' = [ws_threads EXCEPT ![ws_main.endpoint] =
                         [pc |-> "connect", message |-> 0, timer |-> 0]]
    /\ ws_main' = [ws_main EXCEPT !.pc = "join", !.waited = 0]
    /\ UNCHANGED <<ws_server, api_vulnerabilities, ws_returned>>
    /\ WSUnchanged

\* thread.join(timeout=5) returns: the thread has ended or 5 seconds are over.
join_returns(thread, waited) == thread.pc = "done" \/ waited >= JoinTimeout

\* The join returns; the loop goes to the next endpoint, and after the last
\* one test_websocket_vulnerabilities returns.
WsJoinReturns ==
    /\ prog = "websocket" /\ ws_main.pc = "join"
    /\ join_returns(ws_threads[ws_main.endpoint], ws_main.waited)
    /\ IF ws_main.endpoint < Len(ws_endpoints)
       THEN /\ ws_main' = [pc |-> "start", endpoint |-> ws_main.endpoint + 1, waited |-> 0]
            /\ UNCHANGED ws_returned
       ELSE /\ ws_main' = [ws_main EXCEPT !.pc = "returned"]
            /\ ws_returned' = api_vulnerabilities
    /\ UNCHANGED <<ws_threads, ws_server, api_vulnerabilities>>
    /\ WSUnchanged

\* create_connection succeeds; the thread sends the first message.
WsConnected ==
    /\ prog = "websocket"
    /\ \E t \in DOMAIN ws_threads :
          /\ ws_threads[t].pc = "connect"
          /\ WsDue(t) /\ WsDelay(t) < WsTimeout
          /\ ws_threads' = [ws_threads EXCEPT ![t] = [pc |-> "recv", message |-> 1, timer |-> 0]]
    /\ UNCHANGED <<ws_main, ws_server, api_vulnerabilities, ws_returned>>
    /\ WSUnchanged

\* create_connection or recv times out and raises: except: pass
WsRaises ==
    /\ prog = "websocket"
    /\ \E t \in DOMAIN ws_threads :
          /\ WsDue(t) /\ WsDelay(t) >= WsTimeout
          /\ ws_threads' = [ws_threads EXCEPT ![t] = [@ EXCEPT !.pc = "done"]]
    /\ UNCHANGED <<ws_main, ws_server, api_vulnerabilities, ws_returned>>
    /\ WSUnchanged

\* recv returns the answer to the message sent: the finding is appended if the
\* check says so, then the next message is sent, or the connection is closed
\* after the last one.
WsRecv ==
    /\ prog = "websocket"
    /\ \E t \in DOMAIN ws_threads :
          LET m == ws_threads[t].message IN
          /\ ws_threads[t].pc = "recv"
          /\ WsDue(t) /\ WsDelay(t) < WsTimeout
          /\ api_vulnerabilities' =
                IF check_websocket_vulnerability(ws_server.answers[m], test_messages[m])
                THEN Append(api_vulnerabilities, WsFinding(t, m))
                ELSE api_vulnerabilities
          /\ ws_threads' = [ws_threads EXCEPT ![t] =
                IF m < Len(test_messages)
                THEN [pc |-> "recv", message |-> m + 1, timer |-> 0]
                ELSE [@ EXCEPT !.pc = "done"]]
    /\ UNCHANGED <<ws_main, ws_server, ws_returned>>
    /\ WSUnchanged

\* Five seconds pass.  An operation that is due ends first, and a join whose
\* thread has ended or whose timeout is over returns first.
WsTick ==
    /\ prog = "websocket"
    /\ \E t \in DOMAIN ws_threads : WsActive(t)
    /\ \A t \in DOMAIN ws_threads : ~WsDue(t)
    /\ ws_main.pc # "start"
    /\ ws_main.pc = "join" =>
          ~join_returns(ws_threads[ws_main.endpoint], ws_main.waited)
    /\ ws_threads' = [t \in DOMAIN ws_threads |->
                        IF WsActive(t) THEN [ws_threads[t] EXCEPT !.timer = @ + 5]
                        ELSE ws_threads[t]]
    /\ ws_main' = IF ws_main.pc = "join" THEN [ws_main EXCEPT !.waited = @ + 5] ELSE ws_main
    /\ UNCHANGED <<ws_server, api_vulnerabilities, ws_returned>>
    /\ WSUnchanged

NextWS ==
    \/ WsStartThread
    \/ WsJoinReturns
    \/ WsConnected
    \/ WsRaises
    \/ WsRecv
    \/ WsTick

SpecWS == InitWS /\ [][NextWS]_vars

\* C16: once test_websocket_vulnerabilities has returned, self.vulnerabilities
\* is no longer modified: it stays what it was at the return.
C16_NoAppendAfterReturn ==
    (prog = "websocket" /\ ws_main.pc = "returned") =>
        api_vulnerabilities = ws_returned

(***************************************************************************)
(* PortScanner.scan_ports interrupted                                      *)
(*                                                                         *)
(* The code has no cancellation signal of its own; the one way to stop a   *)
(* running scan_ports is a KeyboardInterrupt (Ctrl-C), which Python raises *)
(* in the calling thread.                                                  *)
(***************************************************************************)

InitCancel ==
    /\ InitScanPorts
    /\ IdleReport
    /\ IdleProbe
    /\ IdleBLS
    /\ IdleOther

\* KeyboardInterrupt is raised in the calling thread while it submits or
\* waits in as_completed: control goes to the end of the with block, where
\* ThreadPoolExecutor.__exit__ calls shutdown(wait=True).
Interrupt ==
    /\ prog = "scan_ports" /\ main_pc \in {"submit", "collect"}
    /\ main_pc' = "interrupted"
    /\ UNCHANGED <<prog, varsReport, varsProbe, varsBLS, varsOther, scan_args, max_workers,
                   candidates, server, varsPool, ac_finished, ac_before, waiter,
                   scan_results, collected, retval>>

\* shutdown(wait=True) has joined the worker threads, which end when the
\* queue is empty; the KeyboardInterrupt then leaves scan_ports.
InterruptPropagates ==
    /\ prog = "scan_ports" /\ main_pc = "interrupted"
    /\ work_queue = <<>> /\ running = {}
    /\ main_pc' = "raised"
    /\ retval' = "KeyboardInterrupt"
    /\ UNCHANGED <<prog, varsReport, varsProbe, varsBLS, varsOther, scan_args, max_workers,
                   candidates, server, varsPool, ac_finished, ac_before, waiter,
                   scan_results, collected>>

NextCancel ==
    \/ Submit \/ WorkerStart \/ WorkerFinish \/ StartAsCompleted
    \/ YieldFuture \/ ScanPortsReturn
    \/ Interrupt \/ InterruptPropagates

SpecCancel == InitCancel /\ [][NextCancel]_vars

\* C17: once cancellation is signalled no further probe is started: the
\* number of scan_port invocations stays what it was at the signal.
C17_NoProbeStartedAfterCancel ==
    [][(prog = "scan_ports" /\ main_pc = "interrupted") => invocations' = invocations]_vars

(***************************************************************************)
(* BackupScanner.download_backup_sample                                    *)
(*                                                                         *)
(* The bytes read are kept by their number.                                *)
(***************************************************************************)

DefaultMaxSize == 1024     \* def download_backup_sample(self, backup_url, max_size=1024)
ChunkSize == 1024          \* response.iter_content(chunk_size=1024)

\* The values of max_size the method is called with.
SampleMaxSizes == {100, DefaultMaxSize}

\* The sizes of the chunks iter_content yields: at most chunk_size bytes each.
ChunkSizes == {1, 512, ChunkSize}

InitSample ==
    /\ prog = "sample"
    /\ \E max_size \in SampleMaxSizes, status_code \in {200, 404} :
          sample = [pc |-> "get", max_size |-> max_size, status_code |-> status_code,
                    content |-> 0, ret |-> [kind |-> "None"]]
    /\ IdleReport
    /\ IdleProbe
    /\ IdleDispatch
    /\ IdleBLS
    /\ IdleGen
    /\ IdleRuns
    /\ IdleWS
    /\ IdleClassify
    /\ IdleLater

SampleUnchanged ==
    UNCHANGED <<prog, varsReport, varsProbe, varsDispatch, varsBLS, varsGen, varsRuns, varsWS,
                varsClassify, varsLater>>

\* response = self.session.get(backup_url, timeout=10, stream=True); a status
\* other than 200 falls through to return None.
SampleGet ==
    /\ prog = "sample" /\ sample.pc = "get"
    /\ sample' = IF sample.status_code = 200
                 THEN [sample EXCEPT !.pc = "iter"]
                 ELSE [sample EXCEPT !.pc = "returned"]
    /\ SampleUnchanged

\* if len(content) >= max_size: break, tested after content += chunk
break_after_chunk(content, chunk, max_size) == content + chunk >= max_size

\* One round of the loop: the next chunk is appended, and the sample is
\* returned once it has max_size bytes or more.
SampleChunk ==
    /\ prog = "sample" /\ sample.pc = "iter"
    /\ \E chunk \in ChunkSizes :
          sample' = IF break_after_chunk(sample.content, chunk, sample.max_size)
                    THEN [sample EXCEPT !.content = @ + chunk, !.pc = "returned",
                                        !.ret = [kind |-> "bytes",
                                                 len |-> sample.content + chunk]]
                    ELSE [sample EXCEPT !.content = @ + chunk]
    /\ SampleUnchanged

\* The body ends: the loop is over and what was read is returned.
SampleEnd ==
    /\ prog = "sample" /\ sample.pc = "iter"
    /\ sample' = [sample EXCEPT !.pc = "returned",
                                !.ret = [kind |-> "bytes", len |-> sample.content]]
    /\ SampleUnchanged

\* get or iter_content raises: the error is printed and None is returned.
SampleRaises ==
    /\ prog = "sample" /\ sample.pc \in {"get", "iter"}
    /\ sample' = [sample EXCEPT !.pc = "returned", !.ret = [kind |-> "None"]]
    /\ SampleUnchanged

NextSample == SampleGet \/ SampleChunk \/ SampleEnd \/ SampleRaises

SpecSample == InitSample /\ [][NextSample]_vars

\* C18: the sample download_backup_sample returns has at most max_size bytes.
C18_SampleWithinCap ==
    (prog = "sample" /\ sample.pc = "returned" /\ sample.ret.kind = "bytes") =>
        sample.ret.len <= sample.max_size

(***************************************************************************)
(* The response classifiers                                                *)
(*                                                                         *)
(* An HTTP response is kept by what the classifiers read of it: the status *)
(* code, the length of the text and the words its lower-case form contains.*)
(***************************************************************************)

ClassifyTexts ==
    {[length |-> 0, words |-> {}],
     [length |-> 150, words |-> {}],
     [length |-> 150, words |-> {"user", "admin"}],
     [length |-> 60, words |-> {"error", "unauthorized", "forbidden"}],
     [length |-> 220, words |-> {"admin", "dashboard", "privilege", "success", "true", "profile"}]}

HttpResponses == [status_code : {200, 403}, text : ClassifyTexts]

\* "word" in response.text.lower()
InText(word, response) == word \in response.text.words

\* Faulty variant: the verdict depends on the value tested as well.
check_idor_vulnerability_by_value(response, test_value) ==
    response.status_code = 200 /\ test_value = 1

\* IDORTester._check_idor_vulnerability
check_idor_vulnerability(response, test_value) ==
    BoolToInt(response.status_code = 200)
    + BoolToInt(response.text.length > 100)
    + BoolToInt(InText("user", response) \/ InText("profile", response))
    + BoolToInt(~InText("error", response))
    + BoolToInt(~InText("unauthorized", response))
    + BoolToInt(~InText("forbidden", response)) >= 4

\* AdvancedParameterFuzzer._check_hpp_vulnerability
check_hpp_vulnerability(response, params) ==
    BoolToInt(InText("admin", response))
    + BoolToInt(~InText("unauthorized", response))
    + BoolToInt(response.status_code = 200)
    + BoolToInt(~InText("error", response)) >= 2

\* AdvancedParameterFuzzer._check_type_confusion
check_type_confusion(response, params) ==
    BoolToInt(response.status_code = 200)
    + BoolToInt(InText("admin", response))
    + BoolToInt(InText("success", response))
    + BoolToInt(response.text.length > 100) >= 2

\* AdvancedParameterFuzzer._check_privilege_escalation
check_privilege_escalation(response) ==
    BoolToInt(InText("admin", response))
    + BoolToInt(InText("dashboard", response))
    + BoolToInt(InText("privilege", response))
    + BoolToInt(response.status_code = 200) >= 2

\* AdvancedParameterFuzzer._check_prototype_pollution
check_prototype_pollution(response) ==
    BoolToInt(InText("admin", response))
    + BoolToInt(response.status_code = 200)
    + BoolToInt(InText("true", response)) >= 2

\* The raw responses _check_smuggling_response is called with here.
SmugglingResponses ==
    {r \in RawResponses : r.length \in {40, 101} /\ r.unauthorized = r.forbidden /\ r.ok200 = r.admin}

\* The second argument of the classifiers that take one (the value or the
\* parameters tested).
ClassifyArgs == {1, 2}

Classifiers ==
    {"_check_smuggling_response", "_check_idor_vulnerability", "_check_hpp_vulnerability",
     "_check_type_confusion", "_check_privilege_escalation", "_check_prototype_pollution"}

\* The verdict of classifier fn.
Verdict(fn, response, arg) ==
    CASE fn = "_check_smuggling_response" -> check_smuggling_response(response)
      [] fn = "_check_idor_vulnerability" -> check_idor_vulnerability(response, arg)
      [] fn = "_check_hpp_vulnerability" -> check_hpp_vulnerability(response, arg)
      [] fn = "_check_type_confusion" -> check_type_confusion(response, arg)
      [] fn = "_check_privilege_escalation" -> check_privilege_escalation(response)
      [] OTHER -> check_prototype_pollution(response)

\* A tester after construction: self.vulnerabilities = []
InitClassify ==
    /\ prog = "classify"
    /\ classify = [tester |-> [vulnerabilities |-> <<>>], calls |-> <<>>]
    /\ IdleReport
    /\ IdleProbe
    /\ IdleDispatch
    /\ IdleBLS
    /\ IdleGen
    /\ IdleRuns
    /\ IdleWS
    /\ IdleSample
    /\ IdleLater

\* A classifier is called on a response: it computes its verdict and reads
\* and writes nothing of the tester.
CallClassifier ==
    /\ prog = "classify" /\ Len(classify.calls) < MaxClassifyCalls
    /\ \E fn \in Classifiers, arg \in ClassifyArgs :
       \E response \in (IF fn = "_check_smuggling_response"
                        THEN SmugglingResponses ELSE HttpResponses) :
          classify' = [classify EXCEPT !.calls =
                          Append(@, [fn |-> fn, response |-> response, arg |-> arg,
                                     verdict |-> Verdict(fn, response, arg),
                                     tester_before |-> classify.tester,
                                     tester_after |-> classify.tester])]
    /\ UNCHANGED <<prog, varsReport, varsProbe, varsDispatch, varsBLS, varsGen, varsRuns,
                   varsWS, varsSample, varsLater>>

NextClassify == CallClassifier

SpecClassify == InitClassify /\ [][NextClassify]_vars

SnippetLimit == 2000

VerifyOkLine == [kind |-> "verify_ok", len |-> 26, whole |-> TRUE]
Verify20Line == [kind |-> "verify_20", len |-> 63, whole |-> TRUE]
BackslashN == [kind |-> "backslash_n", len |-> 2, whole |-> TRUE]
TextPieces == [kind : {"text"}, len : {100, 1980, SnippetLimit}, whole : {TRUE}]

Pieces == TextPieces \cup {VerifyOkLine, Verify20Line, BackslashN}

\* What run_openssl can return: p.stdout + p.stderr
OpensslOutputs == UNION {[1..n -> Pieces] : n \in 0..MaxSegments}

HostChars == {"e", "\"", "\\", "\n"}
Hosts == UNION {[1..n -> HostChars] : n \in 1..MaxHostLen}

\* "Verify return code: 0 (ok)" in raw
ContainsVerifyOk(raw) == \E i \in DOMAIN raw : raw[i].kind = "verify_ok" /\ raw[i].whole

\* raw.replace("\\n", " "): the two characters backslash, n become a space
ReplaceBackslashN(raw) ==
    [i \in DOMAIN raw |->
        IF raw[i].kind = "backslash_n" THEN [kind |-> "space", len |-> 1, whole |-> TRUE]
        ELSE raw[i]]

RECURSIVE TextLen(_)
TextLen(text) == IF text = <<>> THEN 0 ELSE Head(text).len + TextLen(Tail(text))

\* text[:limit]
RECURSIVE Slice(_, _)
Slice(text, limit) ==
    IF text = <<>> \/ limit = 0 THEN <<>>
    ELSE IF Head(text).len <= limit
         THEN <<Head(text)>> \o Slice(Tail(text), limit - Head(text).len)
         ELSE <<[kind |-> Head(text).kind, len |-> limit, whole |-> FALSE]>>

\* json.dumps of a str: the quote, the backslash and the newline are escaped
RECURSIVE json_dumps_str(_)
json_dumps_str(str) ==
    IF str = <<>> THEN <<>>
    ELSE (CASE Head(str) = "\"" -> <<"\\", "\"">>
            [] Head(str) = "\\" -> <<"\\", "\\">>
            [] Head(str) = "\n" -> <<"\\", "n">>
            [] OTHER -> <<Head(str)>>) \o json_dumps_str(Tail(str))

\* json.loads of a JSON string
RECURSIVE json_loads_str(_)
json_loads_str(text) ==
    IF text = <<>> THEN <<>>
    ELSE IF Head(text) = "\\"
         THEN <<(IF text[2] = "n" THEN "\n" ELSE text[2])>> \o json_loads_str(Tail(Tail(text)))
         ELSE <<Head(text)>> \o json_loads_str(Tail(text))

\* json.dumps of a bool
json_dumps_bool(b) == IF b THEN "true" ELSE "false"

\* Faulty variant: any "Verify return code" line counts as a valid chain.
parse_and_output_any_code(host, raw) ==
    <<[key |-> "host", value |-> json_dumps_str(host)],
      [key |-> "valid_chain",
       value |-> json_dumps_bool(\E i \in DOMAIN raw : raw[i].kind \in {"verify_ok", "verify_20"})],
      [key |-> "snippet", value |-> Slice(ReplaceBackslashN(raw), SnippetLimit)]>>

\* ssl_check.parse_and_output, lines 12-18: the JSON object it prints, as its
\* members in the order json.dumps writes them
parse_and_output(host, raw) ==
    <<[key |-> "host", value |-> json_dumps_str(host)],
      [key |-> "valid_chain", value |-> json_dumps_bool(ContainsVerifyOk(raw))],
      [key |-> "snippet", value |-> Slice(ReplaceBackslashN(raw), SnippetLimit)]>>

InitSsl ==
    /\ prog = "ssl_check"
    /\ \E host \in Hosts : ssl = [pc |-> "called", host |-> host, raw |-> <<>>, stdout |-> <<>>]
    /\ IdleEarlier
    /\ IdleIdor /\ IdleBlocked /\ IdleSweep /\ IdleRace /\ IdleSmuggling

SslUnchanged == UNCHANGED <<prog, varsEarlier, idor, blocked, sweep, race, smuggling>>

\* parse_and_output(host) with run_openssl returning raw
ParseAndOutput ==
    /\ prog = "ssl_check" /\ ssl.pc = "called"
    /\ \E raw \in OpensslOutputs :
          ssl' = [ssl EXCEPT !.pc = "returned", !.raw = raw,
                             !.stdout = Append(@, parse_and_output(ssl.host, raw))]
    /\ SslUnchanged

\* subprocess.run raises (no openssl program): parse_and_output prints nothing
RunOpensslRaises ==
    /\ prog = "ssl_check" /\ ssl.pc = "called"
    /\ ssl' = [ssl EXCEPT !.pc = "raised"]
    /\ SslUnchanged

NextSsl == ParseAndOutput \/ RunOpensslRaises

SpecSsl == InitSsl /\ [][NextSsl]_vars

\* The members of a printed object, by key
Member(object, key) == (CHOOSE i \in DOMAIN object : object[i].key = key)

\* The pieces of the openssl output that are "Verify return code: ..." lines
IsVerifyLine(piece) == piece.kind \in {"verify_ok", "verify_20"}

\* C21: a call that got the openssl output prints one JSON object with the
\* keys host, valid_chain and snippet and no other; host reads back as the
\* argument, and valid_chain is true exactly when the output contains
\* "Verify return code: 0 (ok)".
C21_OutputObject ==
    (prog = "ssl_check" /\ ssl.pc = "returned") =>
        /\ Len(ssl.stdout) = 1
        /\ LET object == ssl.stdout[1]
           IN /\ Len(object) = 3
              /\ {object[i].key : i \in DOMAIN object} = {"host", "valid_chain", "snippet"}
              /\ json_loads_str(object[Member(object, "host")].value) = ssl.host
              /\ object[Member(object, "valid_chain")].value
                    = (IF \E i \in DOMAIN ssl.raw : ssl.raw[i] = VerifyOkLine
                       THEN "true" ELSE "false")

C21_Witness ==
    /\ prog = "ssl_check" /\ ssl.pc = "returned"
    /\ \E i \in DOMAIN ssl.raw : ssl.raw[i] = Verify20Line
    /\ \A i \in DOMAIN ssl.raw : ssl.raw[i] # VerifyOkLine
    /\ ssl.stdout[1][2].value = "false"
    /\ "\"" \in {ssl.host[i] : i \in DOMAIN ssl.host}

\* C22: whenever the openssl output has a "Verify return code: ..." line, the
\* snippet has it too, whole.
C22_SnippetShowsVerifyLine ==
    (prog = "ssl_check" /\ ssl.pc = "returned") =>
        \A i \in DOMAIN ssl.raw :
            IsVerifyLine(ssl.raw[i]) =>
                \E j \in DOMAIN ssl.stdout[1][3].value : ssl.stdout[1][3].value[j] = ssl.raw[i]

(***************************************************************************)
(* SecurityReportGenerator.save_report                                     *)
(***************************************************************************)

ReportFormats == {"json", "html"}

\* SecurityReportGenerator.save_report: what is written to the file. The json
\* file is json.dump(self.report_data); the html file is built by
\* generate_html_report from generate_summary() and the stored findings.
save_report(rd, format_type) ==
    IF format_type = "json"
    THEN [format |-> "json", data |-> rd]
    ELSE [format |-> "html",
          data |-> [summary |-> generate_summary(rd), vulnerabilities |-> rd.vulnerabilities]]

\* generator.save_report(filename, format_type)
SaveReport ==
    /\ prog = "report"
    /\ \E format_type \in ReportFormats : saved' = save_report(report_data, format_type)
    /\ UNCHANGED <<prog, report_data, calls, clock, varsProbe, varsDispatch, varsBLS, varsOther>>

NextSave == AddScanResult \/ SaveReport

SpecSave == InitReport /\ [][NextSave]_vars

\* C23: the json file save_report wrote has a summary equal to what
\* generate_summary returns for the findings stored in it.
C23_SavedSummary ==
    (prog = "report" /\ saved.format = "json") =>
        LET written == saved.data.summary
            summary == generate_summary(saved.data)
        IN /\ DOMAIN written = DOMAIN summary
           /\ \A k \in DOMAIN summary : written[k] = summary[k]

(***************************************************************************)
(* IDORTester.test_numeric_id_idor                                         *)
(*                                                                         *)
(* A URL is kept as the sequence of its "/"-separated parts, which is what *)
(* url.split("/") returns and "/".join(parts) reads back. A part is a word *)
(* or a decimal number; the last part carries the query, a sequence of     *)
(* key=value pairs.                                                        *)
(***************************************************************************)

Word(w) == [text |-> w, num |-> 0, digits |-> FALSE, query |-> <<>>]

\* str(n): the text of a negative number starts with "-" and is not isdigit()
Number(n) == [text |-> "", num |-> n, digits |-> n >= 0, query |-> <<>>]

Pair(key, value) == [key |-> key, value |-> value]

WithQuery(part, query) == [part EXCEPT !.query = query]

HttpPrefix == <<Word("http:"), Word(""), Word("host")>>

\* The start URLs: http://host/users/5, http://host/users/2/orders/7,
\* http://host/5, host/users/2, http://host/item?id=2, http://host/users/5?id=99,
\* http://host/search?id=1&id=3&q=x, http://host/users, host/users/5?page=2,
\* http://host/0
IdorTargets ==
    {HttpPrefix \o <<Word("users"), Number(5)>>,
     HttpPrefix \o <<Word("users"), Number(2), Word("orders"), Number(7)>>,
     HttpPrefix \o <<Number(5)>>,
     <<Word("host"), Word("users"), Number(2)>>,
     HttpPrefix \o <<WithQuery(Word("item"), <<Pair("id", Number(2))>>)>>,
     HttpPrefix \o <<Word("users"), WithQuery(Number(5), <<Pair("id", Number(99))>>)>>,
     HttpPrefix \o <<WithQuery(Word("search"),
                       <<Pair("id", Number(1)), Pair("id", Number(3)), Pair("q", Word("x"))>>)>>,
     HttpPrefix \o <<Word("users")>>,
     <<Word("host"), Word("users"), WithQuery(Number(5), <<Pair("page", Number(2))>>)>>,
     HttpPrefix \o <<Number(0)>>}

HasScheme(url) == Len(url) >= 2 /\ url[1] = Word("http:")
HasNetloc(url) == HasScheme(url) /\ Len(url) >= 3 /\ url[2] = Word("")

\* urlparse(url).path.split("/")
PathParts(url) ==
    LET from == IF HasNetloc(url) THEN 4 ELSE IF HasScheme(url) THEN 2 ELSE 1
        parts == [i \in 1..(Len(url) - from + 1) |-> WithQuery(url[from + i - 1], <<>>)]
    IN IF HasScheme(url) THEN <<Word("")>> \o parts ELSE parts

\* urlparse(url).query, as its key=value pairs
QueryOf(url) == url[Len(url)].query

\* The keys of a query, each once, in the order they first occur
RECURSIVE KeysOf(_)
KeysOf(query) ==
    IF query = <<>> THEN <<>>
    ELSE LET rest == KeysOf(SubSeq(query, 1, Len(query) - 1))
             key == query[Len(query)].key
         IN IF \E i \in DOMAIN rest : rest[i] = key THEN rest ELSE Append(rest, key)

\* parse_qs(query): for each key the list of its values
parse_qs(query) ==
    LET keys == KeysOf(query)
        ValuesOf(key) ==
            LET at == {i \in DOMAIN query : query[i].key = key}
                RECURSIVE Take(_)
                Take(n) == IF n = 0 THEN <<>>
                           ELSE IF n \in at THEN Append(Take(n - 1), query[n].value)
                           ELSE Take(n - 1)
            IN Take(Len(query))
    IN [i \in DOMAIN keys |-> [key |-> keys[i], values |-> ValuesOf(keys[i])]]

\* urlencode(params, doseq=True)
RECURSIVE urlencode(_)
urlencode(params) ==
    IF params = <<>> THEN <<>>
    ELSE [i \in DOMAIN Head(params).values |-> Pair(Head(params).key, Head(params).values[i])]
         \o urlencode(Tail(params))

PathParam(index) == [kind |-> "path", index |-> index, key |-> ""]
QueryParam(key) == [kind |-> "query", index |-> 0, key |-> key]

RECURSIVE PathIds(_, _)
PathIds(parts, n) ==
    IF n = 0 THEN <<>>
    ELSE PathIds(parts, n - 1)
         \o (IF parts[n].digits THEN <<[param |-> PathParam(n - 1), value |-> parts[n].num]>>
             ELSE <<>>)

RECURSIVE ValueIds(_, _)
ValueIds(key, values) ==
    IF values = <<>> THEN <<>>
    ELSE (IF Head(values).digits THEN <<[param |-> QueryParam(key), value |-> Head(values).num]>>
          ELSE <<>>) \o ValueIds(key, Tail(values))

RECURSIVE QueryIds(_)
QueryIds(params) ==
    IF params = <<>> THEN <<>>
    ELSE ValueIds(Head(params).key, Head(params).values) \o QueryIds(Tail(params))

\* IDORTester._extract_numeric_ids: the (parameter, value) pairs, with the
\* parameter "path_i" kept as the index i (counted from 0)
extract_numeric_ids(url) ==
    PathIds(PathParts(url), Len(PathParts(url))) \o QueryIds(parse_qs(QueryOf(url)))

\* params[param] = [new_value] on the result of parse_qs
SetParam(params, key, value) ==
    IF \E i \in DOMAIN params : params[i].key = key
    THEN [i \in DOMAIN params |->
             IF params[i].key = key THEN [key |-> key, values |-> <<value>>] ELSE params[i]]
    ELSE Append(params, [key |-> key, values |-> <<value>>])

\* IDORTester._replace_id_in_url, called with new_value = str(test_id)
replace_id_in_url(url, param, new_value) ==
    IF param.kind = "path"
    THEN IF param.index < Len(url)
         THEN [url EXCEPT ![param.index + 1] = Number(new_value)]
         ELSE url
    ELSE [url EXCEPT ![Len(url)] =
             WithQuery(@, urlencode(SetParam(parse_qs(QueryOf(url)), param.key,
                                             Number(new_value))))]

\* test_ids of test_numeric_id_idor
test_ids(id_value) == <<id_value - 1, id_value + 1, 1, 2, 3, 100, 1000>>

\* What the target does with the requests of a run: it answers each with the
\* same response, or session.get raises.
IdorServers ==
    [kind : {"response"}, response : HttpResponses]
    \cup {[kind |-> "raises", response |-> [status_code |-> 0, text |-> [length |-> 0, words |-> {}]]]}

InitIdor ==
    /\ prog = "idor"
    /\ \E url \in IdorTargets, srv \in IdorServers :
          idor = [pc |-> "loop", url |-> url, server |-> srv, i |-> 1, j |-> 1,
                  requests |-> <<>>, vulnerabilities |-> <<>>]
    /\ IdleEarlier
    /\ IdleSsl /\ IdleBlocked /\ IdleSweep /\ IdleRace /\ IdleSmuggling

IdorUnchanged == UNCHANGED <<prog, varsEarlier, ssl, blocked, sweep, race, smuggling>>

\* One turn of the inner loop of test_numeric_id_idor (lines 45-59): the
\* test URL is built and requested; a finding is appended when
\* _check_idor_vulnerability accepts the response; an exception is swallowed.
TestNumericIdRequest ==
    /\ prog = "idor" /\ idor.pc = "loop"
    /\ idor.i <= Len(extract_numeric_ids(idor.url))
    /\ LET id == extract_numeric_ids(idor.url)[idor.i]
           test_id == test_ids(id.value)[idor.j]
           test_url == replace_id_in_url(idor.url, id.param, test_id)
           last == idor.j = Len(test_ids(id.value))
           called == idor.server.kind = "response"
           verdict == called /\ check_idor_vulnerability(idor.server.response, test_id)
       IN idor' = [idor EXCEPT
                      !.requests = Append(@, [param |-> id.param, value |-> id.value,
                                              test_id |-> test_id, url |-> test_url,
                                              called |-> called, verdict |-> verdict]),
                      !.vulnerabilities =
                          IF verdict
                          THEN Append(@, [url |-> test_url, parameter |-> id.param,
                                          test_value |-> test_id])
                          ELSE @,
                      !.i = IF last THEN @ + 1 ELSE @,
                      !.j = IF last THEN 1 ELSE @ + 1]
    /\ IdorUnchanged

\* The outer loop is exhausted: test_numeric_id_idor returns
TestNumericIdReturn ==
    /\ prog = "idor" /\ idor.pc = "loop"
    /\ idor.i > Len(extract_numeric_ids(idor.url))
    /\ idor' = [idor EXCEPT !.pc = "returned"]
    /\ IdorUnchanged

NextIdor == TestNumericIdRequest \/ TestNumericIdReturn

SpecIdor == InitIdor /\ [][NextIdor]_vars

\* C24: the requests test_numeric_id_idor issues for one id of the start URL
\* go to pairwise distinct URLs.
C24_ProbesDistinct ==
    prog = "idor" =>
        \A m, n \in DOMAIN idor.requests :
            (m # n /\ idor.requests[m].param = idor.requests[n].param
                   /\ idor.requests[m].value = idor.requests[n].value)
                => idor.requests[m].url # idor.requests[n].url

\* C29: for a path id of the start URL, the test URL is the start URL with
\* exactly that path segment replaced by the test id: the other parts and
\* the query are unchanged.
C29_ReplacesThatSegment ==
    prog = "idor" =>
        \A m \in DOMAIN idor.requests :
            LET r == idor.requests[m]
                at == r.param.index + 1 + Len(idor.url) - Len(PathParts(idor.url))
            IN r.param.kind = "path" =>
                  /\ Len(r.url) = Len(idor.url)
                  /\ \A k \in DOMAIN idor.url :
                        IF k = at
                        THEN r.url[k] = WithQuery(Number(r.test_id), idor.url[k].query)
                        ELSE r.url[k] = idor.url[k]

(***************************************************************************)
(* A probe against a remote side that may stay silent                      *)
(*                                                                         *)
(* PortScanner.scan_port, HTTPSmugglingTester._send_raw_request and        *)
(* ssl_check.run_openssl as the sequence of their blocking operations. The *)
(* remote side answers every operation or stays silent from one of them    *)
(* on. A socket timeout is a timer on each operation of the socket;        *)
(* subprocess.run is called without one.                                   *)
(***************************************************************************)

RawTimeout == 10

\* PortScanner(target, timeout): argparse hands over any int, default 1
ScanPortTimeouts == {1, 2}

NoTimeout == 0

\* The blocking operations of a call, in order
BlockingOps(fn) ==
    CASE fn = "scan_port" -> <<"connect">>
      [] fn = "_send_raw_request_http" -> <<"connect", "send", "recv">>
      [] fn = "_send_raw_request_https" -> <<"connect", "handshake", "send", "recv">>
      [] OTHER -> <<"connect", "handshake", "session">>

BlockedFns == {"scan_port", "_send_raw_request_http", "_send_raw_request_https", "run_openssl"}

\* The timeouts a call can run with
TimeoutsOf(fn) ==
    CASE fn = "scan_port" -> ScanPortTimeouts
      [] fn = "run_openssl" -> {NoTimeout}
      [] OTHER -> {RawTimeout}

InitBlocked ==
    /\ prog = "blocked"
    /\ \E fn \in BlockedFns :
       \E timeout \in TimeoutsOf(fn), silent_from \in 0..Len(BlockingOps(fn)) :
          blocked = [fn |-> fn, pc |-> "blocked", at |-> 1, waited |-> 0,
                     timeout |-> timeout, silent_from |-> silent_from, out |-> "none"]
    /\ IdleEarlier
    /\ IdleSsl /\ IdleIdor /\ IdleSweep /\ IdleRace /\ IdleSmuggling

BlockedUnchanged == UNCHANGED <<prog, varsEarlier, ssl, idor, sweep, race, smuggling>>

Waiting == prog = "blocked" /\ blocked.pc = "blocked"

\* The remote side does not answer the operation the call is in
Silent == blocked.silent_from # 0 /\ blocked.at >= blocked.silent_from

TimerArmed == blocked.timeout # NoTimeout

\* A second of the operation's timer passes. Where no timer runs, the
\* passing of time changes nothing.
BlockedTick ==
    /\ Waiting /\ TimerArmed
    /\ blocked.waited < blocked.timeout
    /\ blocked' = [blocked EXCEPT !.waited = @ + 1]
    /\ BlockedUnchanged

\* The remote side answers: the operation ends; the last one ends the call
OpCompletes ==
    /\ Waiting /\ ~Silent
    /\ TimerArmed => blocked.waited < blocked.timeout
    /\ blocked' = IF blocked.at = Len(BlockingOps(blocked.fn))
                  THEN [blocked EXCEPT !.pc = "returned", !.out = "response"]
                  ELSE [blocked EXCEPT !.at = @ + 1, !.waited = 0]
    /\ BlockedUnchanged

\* The timer of the socket fires: socket.timeout is raised and caught (scan_port
\* line 49, _send_raw_request line 187; connect_ex returns an error code)
OpTimesOut ==
    /\ Waiting /\ TimerArmed
    /\ blocked.waited = blocked.timeout
    /\ blocked' = [blocked EXCEPT !.pc = "returned", !.out = "timeout"]
    /\ BlockedUnchanged

\* A connect nobody answers is given up by the operating system
ConnectGivenUp ==
    /\ Waiting /\ Silent /\ ~TimerArmed
    /\ BlockingOps(blocked.fn)[blocked.at] = "connect"
    /\ blocked' = [blocked EXCEPT !.pc = "returned", !.out = "connect_error"]
    /\ BlockedUnchanged

NextBlocked == BlockedTick \/ OpCompletes \/ OpTimesOut \/ ConnectGivenUp

\* Time passes and what can happen does: weak fairness of every step
SpecBlocked == InitBlocked /\ [][NextBlocked]_vars /\ WF_vars(NextBlocked)

\* C25: every probe invocation eventually returns.
C25_EveryProbeReturns == (prog = "blocked") ~> (blocked.pc = "returned")

(***************************************************************************)
(* The test methods of HTTPSmugglingTester, and findings in general        *)
(***************************************************************************)

\* test_all_http_smuggling: the test methods in call order
SmugglingMethods ==
    <<"test_cl_te_smuggling", "test_te_cl_smuggling", "test_te_te_smuggling",
      "test_cl_cl_smuggling", "test_header_smuggling">>

\* What can happen to the raw request of a test method
SmugglingNets == {"ok", "recv_timeout"}

\* The answers of the target to a raw request: they hold 2, 3, 4 and 5 of the
\* indicators
SmugglingAnswers == {r \in SmugglingResponses : r.ok200}

InitSmuggling ==
    /\ prog = "smuggling"
    /\ \E scheme \in {"http", "https"} :
          smuggling = [pc |-> "run", scheme |-> scheme, at |-> 1, calls |-> <<>>,
                       vulnerabilities |-> <<>>]
    /\ IdleEarlier
    /\ IdleSsl /\ IdleIdor /\ IdleBlocked /\ IdleSweep /\ IdleRace

SmugglingUnchanged == UNCHANGED <<prog, varsEarlier, ssl, idor, blocked, sweep, race>>

\* One test method: if self._send_raw_request(payload): self.vulnerabilities.append(...)
TestSmugglingMethod ==
    /\ prog = "smuggling" /\ smuggling.pc = "run"
    /\ smuggling.at <= Len(SmugglingMethods)
    /\ \E net \in SmugglingNets :
       \E response \in (IF net = "ok" THEN SmugglingAnswers
                        ELSE {CHOOSE r \in SmugglingAnswers : r.length = 101 /\ ~r.forbidden}) :
          LET method == SmugglingMethods[smuggling.at]
              called == SendRawRequestTry(smuggling.scheme, net, response).exc = "none"
              found == send_raw_request(smuggling.scheme, net, response).ret
          IN smuggling' = [smuggling EXCEPT
                              !.at = @ + 1,
                              !.calls = Append(@, [method |-> method, called |-> called,
                                                   response |-> response]),
                              !.vulnerabilities =
                                  IF found THEN Append(@, [type |-> method]) ELSE @]
    /\ SmugglingUnchanged

\* test_all_http_smuggling returns self.vulnerabilities
TestAllSmugglingReturn ==
    /\ prog = "smuggling" /\ smuggling.pc = "run"
    /\ smuggling.at > Len(SmugglingMethods)
    /\ smuggling' = [smuggling EXCEPT !.pc = "returned"]
    /\ SmugglingUnchanged

NextSmuggling == TestSmugglingMethod \/ TestAllSmugglingReturn

InitFindings == InitSmuggling \/ InitIdor

NextFindings == NextSmuggling \/ NextIdor

SpecFindings == InitFindings /\ [][NextFindings]_vars

\* The indicators of _check_smuggling_response that hold of a raw response
SmugglingIndicators(r) ==
    {name \in {"200 OK", "admin", "no unauthorized", "no forbidden", "long"} :
        CASE name = "200 OK" -> r.ok200
          [] name = "admin" -> r.admin
          [] name = "no unauthorized" -> ~r.unauthorized
          [] name = "no forbidden" -> ~r.forbidden
          [] OTHER -> r.length > 100}

\* The indicators of _check_idor_vulnerability that hold of a response
IdorIndicators(r) ==
    {name \in {"200", "long", "user or profile", "no error", "no unauthorized", "no forbidden"} :
        CASE name = "200" -> r.status_code = 200
          [] name = "long" -> r.text.length > 100
          [] name = "user or profile" -> r.text.words \cap {"user", "profile"} # {}
          [] name = "no error" -> "error" \notin r.text.words
          [] name = "no unauthorized" -> "unauthorized" \notin r.text.words
          [] OTHER -> "forbidden" \notin r.text.words}

\* The calls of the test methods made so far whose predicate was called on
\* a response with at least 3 indicators
SmugglingHits ==
    {c \in DOMAIN smuggling.calls :
        smuggling.calls[c].called
        /\ Cardinality(SmugglingIndicators(smuggling.calls[c].response)) >= 3}

IdorHits ==
    {c \in DOMAIN idor.requests :
        idor.server.kind = "response"
        /\ Cardinality(IdorIndicators(idor.server.response)) >= 4}

\* C26: _check_smuggling_response is true exactly for at least 3 of its 5
\* indicators, _check_idor_vulnerability for at least 4 of its 6, and a test
\* method has appended a finding exactly for the calls whose predicate was
\* true.
C26_FindingIffThreshold ==
    /\ \A r \in RawResponses :
          check_smuggling_response(r) <=> Cardinality(SmugglingIndicators(r)) >= 3
    /\ \A r \in HttpResponses, v \in ClassifyArgs :
          check_idor_vulnerability(r, v) <=> Cardinality(IdorIndicators(r)) >= 4
    /\ prog = "smuggling" =>
          /\ Len(smuggling.vulnerabilities) = Cardinality(SmugglingHits)
          /\ \A c \in DOMAIN smuggling.calls :
                c \in SmugglingHits <=>
                    \E v \in DOMAIN smuggling.vulnerabilities :
                        smuggling.vulnerabilities[v].type = smuggling.calls[c].method
    /\ prog = "idor" =>
          /\ Len(idor.vulnerabilities) = Cardinality(IdorHits)
          /\ \A c \in DOMAIN idor.requests :
                c \in IdorHits <=>
                    \E v \in DOMAIN idor.vulnerabilities :
                        /\ idor.vulnerabilities[v].url = idor.requests[c].url
                        /\ idor.vulnerabilities[v].test_value = idor.requests[c].test_id

C26_Witness ==
    /\ prog = "smuggling" /\ smuggling.pc = "returned"
    /\ \E a, b \in DOMAIN smuggling.calls :
          /\ smuggling.calls[a].called /\ smuggling.calls[b].called
          /\ Cardinality(SmugglingIndicators(smuggling.calls[a].response)) = 3
          /\ Cardinality(SmugglingIndicators(smuggling.calls[b].response)) = 2
          /\ smuggling.vulnerabilities = <<[type |-> smuggling.calls[a].method]>>

\* A response without positive evidence: status 200 with an empty body, or
\* another status with a body that has none of the words looked for.
IdorAmbiguous(r) ==
    \/ r.status_code = 200 /\ r.text.length = 0
    \/ r.status_code # 200 /\ r.text.words = {}

\* The same of a raw response: "200 OK" with nothing else in a short text, or
\* no "200 OK" and none of the words looked for.
SmugglingAmbiguous(r) ==
    \/ r.ok200 /\ ~r.admin /\ ~r.unauthorized /\ ~r.forbidden /\ r.length <= 100
    \/ ~r.ok200 /\ ~r.admin /\ ~r.unauthorized /\ ~r.forbidden

\* C27: no call of _check_idor_vulnerability or _check_smuggling_response on a
\* response without positive evidence returns true.
C27_AmbiguousNoFinding ==
    prog = "classify" =>
        \A c \in DOMAIN classify.calls :
            LET call == classify.calls[c] IN
            /\ (call.fn = "_check_idor_vulnerability" /\ IdorAmbiguous(call.response))
                   => ~call.verdict
            /\ (call.fn = "_check_smuggling_response" /\ SmugglingAmbiguous(call.response))
                   => ~call.verdict

(***************************************************************************)
(* The request loops of APISecurityTester.test_rest_api_vulnerabilities    *)
(* and SQLInjectionTester.test_parameter                                   *)
(***************************************************************************)

api_endpoints ==
    <<"/api/v1/users", "/api/v1/admin", "/api/users", "/api/admin",
      "/api/v2/users", "/api/v2/admin", "/rest/users", "/rest/admin">>

methods == <<"GET", "POST", "PUT", "PATCH", "DELETE", "OPTIONS">>

payloads ==
    <<"' OR '1'='1", "' OR 1=1--", "' UNION SELECT NULL--", "'; DROP TABLE users--",
      "' OR 'x'='x", "1' OR '1'='1", "admin'--", "' OR 1=1#", "' OR 'a'='a",
      "1' AND '1'='1">>

\* The two requests test_parameter sends for a payload, in order
sql_methods == <<"GET", "POST">>

SweepFns == {"test_rest_api_vulnerabilities", "test_parameter"}

\* The outer and the inner loop of a method
Outer(fn) == IF fn = "test_rest_api_vulnerabilities" THEN api_endpoints ELSE payloads
Inner(fn) == IF fn = "test_rest_api_vulnerabilities" THEN methods ELSE sql_methods

Positions(fn) == (DOMAIN Outer(fn)) \X (DOMAIN Inner(fn))

\* The target: the requests that raise (a timeout, a refused connection), and
\* whether the responses to the others make a finding
SweepTargets(fn) ==
    {[raises |-> f, finding |-> b] :
        f \in UNION {{{g[k] : k \in 1..n} : g \in [1..n -> Positions(fn)]} : n \in 0..MaxFailures},
        b \in BOOLEAN}

InitSweep ==
    /\ prog = "sweep"
    /\ \E fn \in SweepFns : \E target \in SweepTargets(fn) :
          sweep = [fn |-> fn, pc |-> "loop", i |-> 1, j |-> 1, target |-> target,
                   sent |-> <<>>, results |-> <<>>]
    /\ IdleEarlier
    /\ IdleSsl /\ IdleIdor /\ IdleBlocked /\ IdleRace /\ IdleSmuggling

SweepUnchanged == UNCHANGED <<prog, varsEarlier, ssl, idor, blocked, race, smuggling>>

\* The position the loops go to after the request at <<i, j>>: the next
\* inner turn, or the next outer turn after the last inner one. A request that
\* raised leaves the try block: both methods go on with the next outer turn.
after_request(fn, i, j, raised) ==
    IF raised \/ j = Len(Inner(fn)) THEN <<i + 1, 1>> ELSE <<i, j + 1>>

\* One request of the loops: session.request(method, test_url) of
\* test_rest_api_vulnerabilities (line 54), session.get / session.post of
\* test_parameter (lines 48, 75), with what follows it up to the next request.
SweepRequest ==
    /\ prog = "sweep" /\ sweep.pc = "loop"
    /\ sweep.i <= Len(Outer(sweep.fn))
    /\ LET at == <<sweep.i, sweep.j>>
           raised == at \in sweep.target.raises
           next == after_request(sweep.fn, sweep.i, sweep.j, raised)
           entry == [outer |-> sweep.i, inner |-> sweep.j,
                     kind |-> IF raised THEN "error" ELSE "finding"]
       IN sweep' = [sweep EXCEPT
                       !.sent = Append(@, at),
                       !.results =
                           IF (raised /\ sweep.fn = "test_parameter")
                              \/ (~raised /\ sweep.target.finding)
                           THEN Append(@, entry) ELSE @,
                       !.i = next[1], !.j = next[2]]
    /\ SweepUnchanged

\* The outer loop is exhausted: the method returns
SweepReturn ==
    /\ prog = "sweep" /\ sweep.pc = "loop"
    /\ sweep.i > Len(Outer(sweep.fn))
    /\ sweep' = [sweep EXCEPT !.pc = "returned"]
    /\ SweepUnchanged

NextSweep == SweepRequest \/ SweepReturn

SpecSweep == InitSweep /\ [][NextSweep]_vars

\* C28: when the method has returned, every endpoint x method (every
\* payload x GET, POST) has been requested exactly once, whatever raised.
C28_NoCandidateLost ==
    (prog = "sweep" /\ sweep.pc = "returned") =>
        \A at \in Positions(sweep.fn) :
            Cardinality({k \in DOMAIN sweep.sent : sweep.sent[k] = at}) = 1

(***************************************************************************)
(* RaceConditionTester.test_all_race_conditions                            *)
(*                                                                         *)
(* The threads of a test run the same code, so they are counted by where   *)
(* they are: created, in the request, back from it with a result, done.    *)
(* The list responses is kept as the number of its entries of each kind: a *)
(* response with status 200, a response with another status, None.         *)
(***************************************************************************)

\* test_all_race_conditions: the tests in call order, by the type of their finding
RaceTests ==
    <<"Purchase Race Condition", "Account Creation Race Condition",
      "Password Reset Race Condition", "Coupon Race Condition",
      "Inventory Race Condition", "Voting Race Condition">>

\* range(10) / range(5): the threads each test creates
RaceThreads == <<10, 5, 5, 5, 10, 10>>

RaceValues == {"200", "other", "None"}

NoEntries == [v \in RaceValues |-> 0]

Entries(counts) == counts["200"] + counts["other"] + counts["None"]

\* responses.append(value); the append of a list is one step of the interpreter
list_append(list, value) == [list EXCEPT ![value] = @ + 1]

\* Faulty variant: one response with status 200 is enough.
check_purchase_race_condition_one(resps) == resps["200"] > 0

\* RaceConditionTester._check_purchase_race_condition and the five other
\* _check_* methods, which have the same body:
\* sum(1 for r in responses if r and r.status_code == 200) > 1
check_purchase_race_condition(resps) == resps["200"] > 1

\* The state at the start of test number t: the threads are created
RaceTestStart(t, found) ==
    [pc |-> "start", test |-> t, created |-> RaceThreads[t], requesting |-> 0,
     holding |-> NoEntries, responses |-> NoEntries, vulnerabilities |-> found]

InitRaceTester ==
    /\ prog = "race"
    /\ race = RaceTestStart(1, <<>>)
    /\ IdleEarlier
    /\ IdleSsl /\ IdleIdor /\ IdleBlocked /\ IdleSweep /\ IdleSmuggling

RaceUnchanged == UNCHANGED <<prog, varsEarlier, ssl, idor, blocked, sweep, smuggling>>

\* thread.start() for the next thread; after the last one the joins begin
RaceStartThread ==
    /\ prog = "race" /\ race.pc = "start"
    /\ race' = [race EXCEPT !.created = @ - 1, !.requesting = @ + 1,
                            !.pc = IF race.created = 1 THEN "join" ELSE "start"]
    /\ RaceUnchanged

\* make_purchase() returns in one thread: the response, or None when the
\* request raised
RaceRequestReturns ==
    /\ prog = "race" /\ race.requesting > 0
    /\ \E value \in RaceValues :
          race' = [race EXCEPT !.requesting = @ - 1, !.holding[value] = @ + 1]
    /\ RaceUnchanged

\* responses.append(...) in one thread, which ends it
RaceAppend ==
    /\ prog = "race"
    /\ \E value \in RaceValues :
          /\ race.holding[value] > 0
          /\ race' = [race EXCEPT !.holding[value] = @ - 1,
                                  !.responses = list_append(@, value)]
    /\ RaceUnchanged

\* The last thread.join() returns: every thread has ended
RaceJoined ==
    /\ prog = "race" /\ race.pc = "join"
    /\ race.requesting = 0 /\ Entries(race.holding) = 0
    /\ race' = [race EXCEPT !.pc = "joined"]
    /\ RaceUnchanged

\* if self._check_..._race...(responses): self.vulnerabilities.append(...)
RaceCheck ==
    /\ prog = "race" /\ race.pc = "joined"
    /\ race' = [race EXCEPT
                   !.pc = "checked",
                   !.vulnerabilities =
                       IF check_purchase_race_condition(race.responses)
                       THEN Append(@, RaceTests[race.test]) ELSE @]
    /\ RaceUnchanged

\* The test returns: the next test starts, or test_all_race_conditions returns
RaceNextTest ==
    /\ prog = "race" /\ race.pc = "checked"
    /\ race' = IF race.test < Len(RaceTests)
               THEN RaceTestStart(race.test + 1, race.vulnerabilities)
               ELSE [race EXCEPT !.pc = "returned"]
    /\ RaceUnchanged

NextRaceTester ==
    RaceStartThread \/ RaceRequestReturns \/ RaceAppend \/ RaceJoined \/ RaceCheck
    \/ RaceNextTest

SpecRaceTester == InitRaceTester /\ [][NextRaceTester]_vars

FindingsOfType(type) ==
    {v \in DOMAIN race.vulnerabilities : race.vulnerabilities[v] = type}

\* C30: once the threads of a test are joined, responses has one entry per
\* thread; the test has appended one finding if at least two entries have
\* status 200 and none otherwise; there is at most one finding per type, so
\* at most 6.
C30_OneEntryPerThread ==
    prog = "race" =>
        /\ race.pc \in {"joined", "checked", "returned"} =>
              Entries(race.responses) = RaceThreads[race.test]
        /\ race.pc \in {"checked", "returned"} =>
              Cardinality(FindingsOfType(RaceTests[race.test]))
                  = (IF race.responses["200"] >= 2 THEN 1 ELSE 0)
        /\ \A t \in DOMAIN RaceTests : Cardinality(FindingsOfType(RaceTests[t])) <= 1
        /\ Len(race.vulnerabilities) <= 6

C30_Witness ==
    /\ prog = "race" /\ race.pc = "checked" /\ race.test = 2
    /\ race.responses = [NoEntries EXCEPT !["200"] = 2, !["None"] = 3]
    /\ race.vulnerabilities = <<RaceTests[2]>>

====
